---------------------------- MODULE Spec2Model ----------------------------
(***************************************************************************)
(* Model of the account-matching core of SFDC_Account_Matching:            *)
(* services/fuzzy_matching_service.py (FuzzyMatchingService).              *)
(*                                                                         *)
(* Python strings are modelled as sequences of one-character strings, so   *)
(* that lower(), strip(), endswith(), split() and the regular-expression   *)
(* substitutions are computed character by character.  A Python value that *)
(* may be a missing dictionary key, None or a str is modelled as a record  *)
(* [k, v] with k in {"missing", "none", "str"}.  Floats are modelled as    *)
(* exact rationals [n, d].                                                 *)
(***************************************************************************)
EXTENDS Integers, Sequences, FiniteSets, TLC

VARIABLES
    pc,              \* position of the operation under study
    str1,            \* first text input
    str2,            \* second text input
    customer,        \* the customer record (a Python dict)
    shell,           \* one shell record (pair-level operations)
    shell_accounts,  \* the shell collection (a Python list of dicts)
    completion,      \* what the chat-completion call of the LLM client does
    request,         \* the JSON body of the batch request
    result           \* what the last operation returned (or that it raised)

vars == <<pc, str1, str2, customer, shell, shell_accounts, completion, request, result>>

-----------------------------------------------------------------------------
(* Characters and elementary str methods                                   *)

UpperChars == <<"A","B","C","D","E","F","G","H","I","J","K","L","M",
                "N","O","P","Q","R","S","T","U","V","W","X","Y","Z">>
LowerChars == <<"a","b","c","d","e","f","g","h","i","j","k","l","m",
                "n","o","p","q","r","s","t","u","v","w","x","y","z">>
DigitChars == <<"0","1","2","3","4","5","6","7","8","9">>

Range(f) == {f[i] : i \in DOMAIN f}

\* TRUE, once x has been evaluated
Evaluated(x) == x = x

UpperSet == Range(UpperChars)

AlnumChars == Range(UpperChars) \cup Range(LowerChars) \cup Range(DigitChars)

SpaceChars == {" ", "\t", "\n"}

IsAlnum(c) == c \in AlnumChars

IsSpace(c) == c \in SpaceChars

\* str.lower() on one character
LowerOf == [c \in UpperSet |-> LowerChars[CHOOSE i \in DOMAIN UpperChars : UpperChars[i] = c]]

lower_char(c) == IF c \in UpperSet THEN LowerOf[c] ELSE c

lower(s) == IF s = <<>> THEN <<>> ELSE [i \in 1..Len(s) |-> lower_char(s[i])]

startswith(s, p) == Len(s) >= Len(p) /\ SubSeq(s, 1, Len(p)) = p

endswith(s, p) == Len(s) >= Len(p) /\ SubSeq(s, Len(s) - Len(p) + 1, Len(s)) = p

RECURSIVE lstrip(_)
lstrip(s) == IF s # <<>> /\ IsSpace(Head(s)) THEN lstrip(Tail(s)) ELSE s

RECURSIVE rstrip(_)
rstrip(s) ==
    IF s # <<>> /\ IsSpace(s[Len(s)]) THEN rstrip(SubSeq(s, 1, Len(s) - 1)) ELSE s

strip(s) == rstrip(lstrip(s))

\* str.split(): the maximal runs of non-whitespace characters, in order
RECURSIVE split_from(_, _)
split_from(s, cur) ==
    IF ~Evaluated(cur) \/ s = <<>>
    THEN IF cur = <<>> THEN <<>> ELSE <<cur>>
    ELSE IF IsSpace(Head(s))
         THEN (IF cur = <<>> THEN <<>> ELSE <<cur>>) \o split_from(Tail(s), <<>>)
         ELSE split_from(Tail(s), Append(cur, Head(s)))

split(s) == split_from(s, <<>>)

\* ' '.join(parts)
RECURSIVE join_space(_)
join_space(parts) ==
    IF parts = <<>> THEN <<>>
    ELSE IF Len(parts) = 1 THEN parts[1]
         ELSE parts[1] \o <<" ">> \o join_space(Tail(parts))

\* re.sub(r'[^a-zA-Z0-9\s]', ' ', s)
sub_special_with_space(s) ==
    IF s = <<>> THEN <<>>
    ELSE [i \in 1..Len(s) |-> IF IsAlnum(s[i]) \/ IsSpace(s[i]) THEN s[i] ELSE " "]

\* re.sub(r'[^a-zA-Z0-9]', '', s)
remove_special(s) == SelectSeq(s, IsAlnum)

-----------------------------------------------------------------------------
(* Text Normalizer: normalize_company_name                                 *)

business_suffixes ==
    << <<"i","n","c">>,
       <<"i","n","c","o","r","p","o","r","a","t","e","d">>,
       <<"c","o","r","p">>,
       <<"c","o","r","p","o","r","a","t","i","o","n">>,
       <<"l","t","d">>,
       <<"l","i","m","i","t","e","d">>,
       <<"l","l","c">>,
       <<"l","l","p">>,
       <<"c","o","m","p","a","n","y">>,
       <<"c","o">>,
       <<"g","r","o","u","p">>,
       <<"h","o","l","d","i","n","g","s">>,
       <<"e","n","t","e","r","p","r","i","s","e","s">> >>

\* patterns = [f' {suffix}', f'.{suffix}', f',{suffix}', f'-{suffix}'], per suffix
suffix_patterns ==
    [i \in DOMAIN business_suffixes |->
        << <<" ">> \o business_suffixes[i], <<".">> \o business_suffixes[i],
           <<",">> \o business_suffixes[i], <<"-">> \o business_suffixes[i] >>]

\* the inner loop: the first pattern that the string ends with is cut off, then break
RECURSIVE strip_first_pattern(_, _, _)
strip_first_pattern(normalized, patterns, j) ==
    IF j > Len(patterns) THEN normalized
    ELSE IF endswith(normalized, patterns[j])
         THEN SubSeq(normalized, 1, Len(normalized) - Len(patterns[j]))
         ELSE strip_first_pattern(normalized, patterns, j + 1)

\* the outer loop: every suffix of the list is tried once, in list order, on the
\* string as the previous suffixes left it
\* (the empty string ends with no pattern)
RECURSIVE strip_business_suffixes(_, _)
strip_business_suffixes(normalized, i) ==
    IF normalized = <<>> \/ i > Len(business_suffixes) THEN normalized
    ELSE strip_business_suffixes(
             strip_first_pattern(normalized, suffix_patterns[i], 1),
             i + 1)

normalize_company_name(name) ==
    IF name = <<>> THEN <<>>
    ELSE join_space(split(sub_special_with_space(
             strip_business_suffixes(lower(name), 1))))

-----------------------------------------------------------------------------
(* Exact rationals standing for Python floats: [n, d] in lowest terms, d > 0, *)
(* n >= 0.  Sums go through the least common denominator and comparisons      *)
(* through the continued-fraction expansion, so every intermediate value      *)
(* stays within TLC's 32-bit integers.                                        *)

RECURSIVE GCD(_, _)
GCD(a, b) == IF b = 0 THEN a ELSE GCD(b, a % b)

Rat(n, d) == LET g == GCD(n, d) IN [n |-> n \div g, d |-> d \div g]

RZero == Rat(0, 1)

\* -1, 0, 1 as p/q is less than, equal to, greater than r/s (q, s > 0)
RECURSIVE RCmp(_, _, _, _)
RCmp(p, q, r, s) ==
    LET ip == p \div q
        ir == r \div s
        fp == p % q
        fr == r % s
    IN  IF ip # ir THEN (IF ip < ir THEN -1 ELSE 1)
        ELSE IF fp = 0 /\ fr = 0 THEN 0
        ELSE IF fp = 0 THEN -1
        ELSE IF fr = 0 THEN 1
        ELSE RCmp(s, fr, q, fp)

REq(x, y) == RCmp(x.n, x.d, y.n, y.d) = 0

RLe(x, y) == RCmp(x.n, x.d, y.n, y.d) <= 0

RLt(x, y) == RCmp(x.n, x.d, y.n, y.d) < 0

RAdd(x, y) ==
    LET l == (x.d \div GCD(x.d, y.d)) * y.d
    IN  Rat(x.n * (l \div x.d) + y.n * (l \div y.d), l)

RMul(x, y) ==
    LET g1 == GCD(x.n, y.d)
        g2 == GCD(y.n, x.d)
    IN  Rat((x.n \div g1) * (y.n \div g2), (x.d \div g2) * (y.d \div g1))

RMin(x, y) == IF RLe(x, y) THEN x ELSE y

-----------------------------------------------------------------------------
(* difflib.SequenceMatcher(None, a, b).ratio(), as called by               *)
(* compute_fuzzy_similarity.  No junk: isjunk is None and the autojunk     *)
(* heuristic only applies to sequences of 200 or more elements.            *)

\* length of the longest common prefix of a[i..ahi) and b[j..bhi) (1-based, ahi/bhi exclusive)
RECURSIVE common_prefix_len(_, _, _, _, _, _)
common_prefix_len(a, b, i, j, ahi, bhi) ==
    IF i < ahi /\ j < bhi /\ a[i] = b[j]
    THEN 1 + common_prefix_len(a, b, i + 1, j + 1, ahi, bhi)
    ELSE 0

\* find_longest_match(alo, ahi, blo, bhi): the longest matching block; of the
\* longest ones, the one starting earliest in a; of those, earliest in b
SetMax(S) == CHOOSE m \in S : \A o \in S : o <= m

SetMin(S) == CHOOSE m \in S : \A o \in S : m <= o

\* the earliest start in b of a block of size k starting at i in a
earliest_in_b(a, b, i, k, ahi, blo, bhi) ==
    <<i, SetMin({j \in blo..(bhi - 1) : common_prefix_len(a, b, i, j, ahi, bhi) = k}), k>>

\* the earliest start in a of a block of size k
earliest_block(a, b, k, alo, ahi, blo, bhi) ==
    earliest_in_b(a, b,
                  SetMin({i \in alo..(ahi - 1) :
                             \E j \in blo..(bhi - 1) :
                                 common_prefix_len(a, b, i, j, ahi, bhi) = k}),
                  k, ahi, blo, bhi)

longest_block(a, b, k, alo, ahi, blo, bhi) ==
    IF k = 0 THEN <<alo, blo, 0>> ELSE earliest_block(a, b, k, alo, ahi, blo, bhi)

find_longest_match(a, b, alo, ahi, blo, bhi) ==
    IF alo >= ahi \/ blo >= bhi THEN <<alo, blo, 0>>
    ELSE longest_block(a, b,
                       SetMax({common_prefix_len(a, b, i, j, ahi, bhi) :
                                   i \in alo..(ahi - 1), j \in blo..(bhi - 1)}),
                       alo, ahi, blo, bhi)

\* get_matching_blocks(): the total size of the matching blocks found by taking
\* the longest match and recursing on the pieces to its left and to its right
RECURSIVE matching_size(_, _, _, _, _, _)
RECURSIVE around_block(_, _, _, _, _, _, _)
matching_size(a, b, alo, ahi, blo, bhi) ==
    around_block(a, b, alo, ahi, blo, bhi, find_longest_match(a, b, alo, ahi, blo, bhi))

\* the block m = <<i, j, k>> plus what matches to its left and to its right
around_block(a, b, alo, ahi, blo, bhi, m) ==
    IF m[3] = 0 THEN 0
    ELSE m[3]
         + matching_size(a, b, alo, m[1], blo, m[2])
         + matching_size(a, b, m[1] + m[3], ahi, m[2] + m[3], bhi)

\* ratio() = 2.0 * matches / (len(a) + len(b)), and 1.0 when both are empty
sequence_matcher_ratio(a, b) ==
    IF Len(a) + Len(b) = 0 THEN Rat(1, 1)
    ELSE Rat(2 * matching_size(a, b, 1, Len(a) + 1, 1, Len(b) + 1), Len(a) + Len(b))

-----------------------------------------------------------------------------
(* Similarity Scorer: compute_fuzzy_similarity                             *)

\* the similarity of the two normalized strings
similarity_of_normalized(norm1, norm2) ==
    IF norm1 = <<>> \/ norm2 = <<>> THEN RZero
    ELSE sequence_matcher_ratio(norm1, norm2)

compute_fuzzy_similarity(s1, s2) ==
    IF s1 = <<>> \/ s2 = <<>> THEN RZero
    ELSE similarity_of_normalized(normalize_company_name(s1), normalize_company_name(s2))

-----------------------------------------------------------------------------
(* Python values: a dictionary entry is missing, None or a str            *)

Missing == [k |-> "missing", v |-> <<>>]

None == [k |-> "none", v |-> <<>>]

Str(s) == [k |-> "str", v |-> s]

\* d.get(key, default)
dict_get(d, key, default) == IF d[key].k = "missing" THEN default ELSE d[key]

\* d.get(key): None when the key is missing
dict_get_or_none(d, key) == dict_get(d, key, None)

\* the truth value Python gives a str-or-None: False for None and for ''
truthy(x) == x.k = "str" /\ x.v # <<>>

\* `not d` for a dict: it has no key at all
is_empty_dict(d) == \A key \in DOMAIN d : d[key].k = "missing"

-----------------------------------------------------------------------------
(* AI assessment: services/openai_service.py                               *)
(*                                                                         *)
(* A JSON value the LLM may answer with is a record [t, cs, eb]: an object *)
(* (t = "obj") with its confidence_score cs and explanation_bullets eb, or *)
(* a number or null.  The text of a response is a record [form, value]:    *)
(* form "json" is the JSON text of value, "wrapped" is that text inside    *)
(* prose, "braces" is prose holding braces around no valid JSON, "prose"   *)
(* holds no brace, and "none", "empty", "blank" are None, '' and spaces.   *)

\* the value of a confidence_score key (absent, a number, a string, null)
NoConf == [t |-> "missing", n |-> 0]

JNumber(n) == [t |-> "num", n |-> n]

JStringConf == [t |-> "str", n |-> 0]

JNullConf == [t |-> "null", n |-> 0]

\* the value of an explanation_bullets key (absent, a list, a string)
NoBullets == [t |-> "missing", items |-> <<>>]

JList(items) == [t |-> "list", items |-> items]

JStringBullets == [t |-> "str", items |-> <<>>]

JObject(cs, eb) == [t |-> "obj", cs |-> cs, eb |-> eb]

JScalar == [t |-> "num", cs |-> NoConf, eb |-> NoBullets]

JNull == [t |-> "null", cs |-> NoConf, eb |-> NoBullets]

Content(form, value) == [form |-> form, value |-> value]

NoContent == Content("none", JNull)

\* completion.choices[0].message.content, or the exception create() raised
Completion(raises, content) == [raises |-> raises, content |-> content]

NoCompletion == Completion(FALSE, NoContent)

NoRequest ==
    [customer_account_ids |-> <<>>, shell_account_ids |-> <<>>, invalid_customer_ids |-> <<>>]

\* json.loads: only a JSON text parses
json_loads(text) ==
    [exc |-> IF text.form = "json" THEN "" ELSE "JSONDecodeError", value |-> text.value]

json_dumps(value) == Content("json", value)

\* re.search(r'\{[\s\S]*\}', response): the text from the first '{' to the
\* last '}', when there is one
re_search_object(text) ==
    IF text.form = "wrapped" THEN [found |-> TRUE, group |-> Content("json", text.value)]
    ELSE IF text.form = "braces" THEN [found |-> TRUE, group |-> text]
    ELSE IF text.form = "json" /\ text.value.t = "obj" THEN [found |-> TRUE, group |-> text]
    ELSE [found |-> FALSE, group |-> text]

ErrorBullets(error_msg) ==
    << "Error: " \o error_msg,
       "Using computed scores only due to AI service error",
       "Basic relationship checks still performed" >>

\* the except clause of ask_openai: `import json` inside the try block makes
\* json a local name of the function, unbound until that statement has run
ask_openai_except(error_msg, json_bound) ==
    IF json_bound
    THEN [exc |-> "", text |-> json_dumps(JObject(JNumber(0), JList(ErrorBullets(error_msg))))]
    ELSE [exc |-> "UnboundLocalError", text |-> NoContent]

\* the validation of the parsed value, and json.dumps of it
ask_openai_validate(parsed) ==
    IF parsed.t # "obj" THEN ask_openai_except("argument is not iterable", TRUE)
    ELSE IF parsed.cs.t = "missing"
    THEN ask_openai_except("Missing required field: confidence_score", TRUE)
    ELSE IF parsed.eb.t = "missing"
    THEN ask_openai_except("Missing required field: explanation_bullets", TRUE)
    ELSE IF parsed.eb.t # "list"
    THEN ask_openai_except("explanation_bullets must be a list", TRUE)
    ELSE [exc |-> "", text |-> json_dumps(parsed)]

ask_openai(llm) ==
    LET response == llm.content IN
    IF llm.raises THEN ask_openai_except("create() raised", FALSE)
    ELSE IF response.form \in {"none", "empty", "blank"}
    THEN ask_openai_except("Empty response from OpenAI", FALSE)
    ELSE LET whole == json_loads(response) IN
         IF whole.exc = "" THEN ask_openai_validate(whole.value)
         ELSE LET json_match == re_search_object(response) IN
              IF ~json_match.found
              THEN ask_openai_except("No valid JSON found in response", TRUE)
              ELSE LET extracted == json_loads(json_match.group) IN
                   IF extracted.exc # ""
                   THEN ask_openai_except("Invalid JSON in extracted response", TRUE)
                   ELSE ask_openai_validate(extracted.value)

\* the dict get_ai_match_assessment returns; a key it does not carry is
\* NoConf / NoBullets / ""
Assessment(success, confidence_score, explanation_bullets, error) ==
    [success |-> success, confidence_score |-> confidence_score,
     explanation_bullets |-> explanation_bullets, error |-> error]

get_ai_match_assessment(llm) ==
    LET response == ask_openai(llm) IN
    IF response.exc # ""
    THEN Assessment(FALSE, NoConf, NoBullets, "Error calling OpenAI: " \o response.exc)
    ELSE LET ai_assessment == json_loads(response.text) IN
         IF ai_assessment.exc # ""
         THEN Assessment(FALSE, NoConf, NoBullets, "Failed to parse AI response as JSON")
         ELSE Assessment(TRUE,
                         IF ai_assessment.value.cs.t = "missing" THEN JNumber(0)
                         ELSE ai_assessment.value.cs,
                         IF ai_assessment.value.eb.t = "missing" THEN JList(<<>>)
                         ELSE ai_assessment.value.eb,
                         "")

-----------------------------------------------------------------------------
(* Text Normalizer: URLs                                                   *)

domain_prefixes ==
    << <<"w","w","w",".">>, <<"a","p","p",".">>, <<"p","o","r","t","a","l",".">>,
       <<"m","y",".">>, <<"s","e","c","u","r","e",".">>, <<"a","d","m","i","n",".">> >>

domain_suffixes ==
    << <<".","c","o","m">>, <<".","o","r","g">>, <<".","n","e","t">>,
       <<".","e","d","u">>, <<".","g","o","v">>, <<".","c","o">>,
       <<".","i","o">>, <<".","a","i">> >>

HttpScheme == <<"h","t","t","p",":","/","/">>

HttpsScheme == <<"h","t","t","p","s",":","/","/">>

\* the characters of s before the first one that is in stops
RECURSIVE take_until(_, _)
take_until(s, stops) ==
    IF s = <<>> \/ Head(s) \in stops THEN <<>>
    ELSE <<Head(s)>> \o take_until(Tail(s), stops)

\* urlparse(url).netloc for a url that starts with http:// or https://: what
\* follows the "//" up to the first "/", "?" or "#".  urlparse raises ValueError
\* when the netloc has "[" without "]" or "]" without "["
checked_netloc(netloc) ==
    IF ("[" \in Range(netloc)) # ("]" \in Range(netloc))
    THEN [exc |-> "ValueError", netloc |-> <<>>]
    ELSE [exc |-> "", netloc |-> netloc]

url_netloc(url) ==
    checked_netloc(take_until(
        IF startswith(url, HttpsScheme)
        THEN SubSeq(url, Len(HttpsScheme) + 1, Len(url))
        ELSE SubSeq(url, Len(HttpScheme) + 1, Len(url)),
        {"/", "?", "#"}))

\* for prefix in self.domain_prefixes: if domain.startswith(prefix): cut; break
RECURSIVE strip_domain_prefix(_, _)
strip_domain_prefix(domain, i) ==
    IF i > Len(domain_prefixes) THEN domain
    ELSE IF startswith(domain, domain_prefixes[i])
         THEN SubSeq(domain, Len(domain_prefixes[i]) + 1, Len(domain))
         ELSE strip_domain_prefix(domain, i + 1)

\* for suffix in self.domain_suffixes: if domain.endswith(suffix): cut; break
RECURSIVE strip_domain_suffix(_, _)
strip_domain_suffix(domain, i) ==
    IF i > Len(domain_suffixes) THEN domain
    ELSE IF endswith(domain, domain_suffixes[i])
         THEN SubSeq(domain, 1, Len(domain) - Len(domain_suffixes[i]))
         ELSE strip_domain_suffix(domain, i + 1)

\* url is a str-or-None value; the result is a str value or None
\* domain = parsed.netloc.lower() without its prefix; None when urlparse raised
domain_of_parsed(parsed) ==
    IF parsed.exc # "" THEN None
    ELSE Str(strip_domain_prefix(lower(parsed.netloc), 1))

extract_domain_from_url(url) ==
    IF ~truthy(url) THEN None
    ELSE domain_of_parsed(url_netloc(
             IF startswith(url.v, HttpScheme) \/ startswith(url.v, HttpsScheme)
             THEN url.v ELSE HttpsScheme \o url.v))

\* domain is a str-or-None value; the result is a str value or None
lowered_or_none(cut) == IF cut # <<>> THEN Str(lower(cut)) ELSE None

extract_company_name_from_domain(domain) ==
    IF ~truthy(domain) THEN None
    ELSE lowered_or_none(remove_special(strip_domain_suffix(domain.v, 1)))

\* the company token a website value yields, or None
website_company_token(website) ==
    IF ~truthy(website) THEN None
    ELSE extract_company_name_from_domain(extract_domain_from_url(website))

-----------------------------------------------------------------------------
(* Similarity Scorer: the three signals.  A signal is [score, explanation]: *)
(* score a rational, explanation the sequence of the literal pieces of the  *)
(* Python string (the interpolated values are left out).                    *)

Signal(score, explanation) == [score |-> score, explanation |-> explanation]

\* variant of Percent that leaves the ratio on the 0..1 scale
percent_unscaled(ratio) == ratio

Percent(ratio) == Rat(ratio.n * 100, ratio.d)

\* both domain-derived company names are known
website_match_of_companies(customer_domain_company, shell_domain_company) ==
    IF ~truthy(customer_domain_company)
    THEN Signal(RZero, <<"Could not extract company name from customer domain: ">>)
    ELSE IF ~truthy(shell_domain_company)
    THEN Signal(RZero, <<"Could not extract company name from shell domain: ">>)
    ELSE Signal(Percent(compute_fuzzy_similarity(customer_domain_company.v,
                                                 shell_domain_company.v)),
                <<"Comparing customer domain '", "' with shell ZI domain '",
                  "' (similarity: ", "%)">>)

\* both domains have been extracted
website_match_of_domains(customer_domain, shell_domain) ==
    IF ~truthy(customer_domain)
    THEN Signal(RZero, <<"Could not extract valid domain from customer website: ">>)
    ELSE IF ~truthy(shell_domain)
    THEN Signal(RZero, <<"Could not extract valid domain from shell ZI website: ">>)
    ELSE website_match_of_companies(extract_company_name_from_domain(customer_domain),
                                    extract_company_name_from_domain(shell_domain))

compute_website_match(customer_website, shell_zi_website) ==
    IF ~truthy(customer_website)
    THEN Signal(RZero, <<"No customer website provided">>)
    ELSE IF ~truthy(shell_zi_website)
    THEN Signal(RZero, <<"No shell ZI website provided">>)
    ELSE website_match_of_domains(extract_domain_from_url(customer_website),
                                  extract_domain_from_url(shell_zi_website))

compute_name_match(customer_name, shell_zi_name) ==
    IF ~truthy(customer_name)
    THEN Signal(RZero, <<"No customer name provided">>)
    ELSE IF ~truthy(shell_zi_name)
    THEN Signal(RZero, <<"No shell ZI company name provided">>)
    ELSE Signal(Percent(compute_fuzzy_similarity(customer_name.v, shell_zi_name.v)),
                <<"Comparing customer name '", "' with shell ZI name '",
                  "' (similarity: ", "%)">>)

\* the customer key and the shell key of the four address components, in the
\* order the code reads them
AddressFields ==
    << [label |-> "Country", ckey |-> "BillingCountry",    skey |-> "ZI_Company_Country__c"],
       [label |-> "State",   ckey |-> "BillingState",      skey |-> "ZI_Company_State__c"],
       [label |-> "City",    ckey |-> "BillingCity",       skey |-> "ZI_Company_City__c"],
       [label |-> "Postal",  ckey |-> "BillingPostalCode", skey |-> "ZI_Company_Postal_Code__c"] >>

\* variant of strip_lower_value that trims but keeps the case of the value
strip_value_only(x) ==
    IF x.k = "none" THEN [exc |-> "AttributeError", v |-> <<>>]
    ELSE [exc |-> "", v |-> strip(x.v)]

\* data.get(key, '').strip().lower(); .strip() on None raises AttributeError
strip_lower_value(x) ==
    IF x.k = "none" THEN [exc |-> "AttributeError", v |-> <<>>]
    ELSE [exc |-> "", v |-> lower(strip(x.v))]

stripped_lower(d, key) == strip_lower_value(dict_get(d, key, Str(<<>>)))

\* variant of address_component in which the postal code is worth 30 points
address_component_postal30(i, c, s) ==
    [points   |-> IF c # <<>> /\ s # <<>> /\ c = s THEN 30 ELSE 0,
     match    |-> c # <<>> /\ s # <<>> /\ c = s,
     mismatch |-> IF i = 4 THEN ~(c # <<>> /\ s # <<>>)
                  ELSE c # <<>> /\ s # <<>> /\ c # s]

\* what one component adds: the points, and whether it is appended to matches or
\* to mismatches.  Country, state and city: the else belongs to the comparison.
\* Postal code: the else belongs to `if customer_postal and shell_postal`
address_component(i, c, s) ==
    [points   |-> IF c # <<>> /\ s # <<>> /\ c = s THEN (IF i = 4 THEN 10 ELSE 30) ELSE 0,
     match    |-> c # <<>> /\ s # <<>> /\ c = s,
     mismatch |-> IF i = 4 THEN ~(c # <<>> /\ s # <<>>)
                  ELSE c # <<>> /\ s # <<>> /\ c # s]

\* the labels of the components (in order) that satisfy keep
RECURSIVE labels_where(_, _)
labels_where(keep, i) ==
    IF i > Len(AddressFields) THEN <<>>
    ELSE (IF keep[i] THEN <<AddressFields[i].label>> ELSE <<>>) \o labels_where(keep, i + 1)

\* [exc, score, matches, mismatches, explanation]
AddressResult(exc, score, matches, mismatches, explanation) ==
    [exc |-> exc, score |-> score, matches |-> matches, mismatches |-> mismatches,
     explanation |-> explanation]

\* explanation = '; '.join(explanation_parts) or the default text
address_explanation(matches, mismatches) ==
    IF matches = <<>> /\ mismatches = <<>> THEN <<"No address data to compare">>
    ELSE (IF matches # <<>> THEN <<"Matches: ">> \o matches ELSE <<>>)
         \o (IF mismatches # <<>> THEN <<"Mismatches: ">> \o mismatches ELSE <<>>)

address_result_of(score, matches, mismatches) ==
    AddressResult("", Rat(score, 1), matches, mismatches,
                  address_explanation(matches, mismatches))

\* comp: what the four components add, in the order the code reads them
address_of_components(comp) ==
    address_result_of(comp[1].points + comp[2].points + comp[3].points + comp[4].points,
                      labels_where(<<comp[1].match, comp[2].match,
                                     comp[3].match, comp[4].match>>, 1),
                      labels_where(<<comp[1].mismatch, comp[2].mismatch,
                                     comp[3].mismatch, comp[4].mismatch>>, 1))

\* cv, sv: the four stripped, lower-cased values of each side
address_of_values(cv, sv) ==
    IF \E i \in 1..4 : cv[i].exc # "" \/ sv[i].exc # ""
    THEN AddressResult("AttributeError", RZero, <<>>, <<>>, <<>>)
    ELSE address_of_components(<<address_component(1, cv[1].v, sv[1].v),
                                 address_component(2, cv[2].v, sv[2].v),
                                 address_component(3, cv[3].v, sv[3].v),
                                 address_component(4, cv[4].v, sv[4].v)>>)

compute_address_consistency_score(customer_data, shell_data) ==
    IF is_empty_dict(customer_data) \/ is_empty_dict(shell_data)
    THEN AddressResult("", RZero, <<>>, <<>>, <<"Missing customer or shell address data">>)
    ELSE address_of_values(
             <<stripped_lower(customer_data, AddressFields[1].ckey),
               stripped_lower(customer_data, AddressFields[2].ckey),
               stripped_lower(customer_data, AddressFields[3].ckey),
               stripped_lower(customer_data, AddressFields[4].ckey)>>,
             <<stripped_lower(shell_data, AddressFields[1].skey),
               stripped_lower(shell_data, AddressFields[2].skey),
               stripped_lower(shell_data, AddressFields[3].skey),
               stripped_lower(shell_data, AddressFields[4].skey)>>)

-----------------------------------------------------------------------------
(* Similarity Scorer: compute_overall_similarity                           *)

\* variant of overall_branch that tries the names before the websites
overall_branch_name_first(cust, sh) ==
    IF truthy(dict_get_or_none(cust, "Name"))
       /\ truthy(dict_get_or_none(sh, "ZI_Company_Name__c"))
    THEN "name"
    ELSE IF truthy(dict_get_or_none(cust, "Website"))
            /\ truthy(dict_get_or_none(sh, "ZI_Website__c"))
    THEN "website"
    ELSE "address"

\* which arm of the precedence rule runs: field presence only
overall_branch(cust, sh) ==
    IF truthy(dict_get_or_none(cust, "Website")) /\ truthy(dict_get_or_none(sh, "ZI_Website__c"))
    THEN "website"
    ELSE IF truthy(dict_get_or_none(cust, "Name"))
            /\ truthy(dict_get_or_none(sh, "ZI_Company_Name__c"))
    THEN "name"
    ELSE "address"

\* primary_score + secondary_score of the arm
primary_and_secondary(branch, website_score, name_score, address_score) ==
    IF branch = "website"
    THEN RAdd(RMul(website_score, Rat(6, 10)), RMul(name_score, Rat(3, 10)))
    ELSE IF branch = "name"
    THEN RMul(name_score, Rat(6, 10))
    ELSE RMul(address_score, Rat(6, 1000))

\* geo_score = address_score * 0.1 / 100
geo_score(address_score) == RMul(address_score, Rat(1, 1000))

Hundred == Rat(100, 1)

\* the dict returned, or exc = "AttributeError" when the address signal raised;
\* branch records which arm of the rule ran
combine_signals(branch, website, name, address) ==
    IF address.exc # ""
    THEN [exc |-> address.exc, website_match |-> RZero, name_match |-> RZero,
          address_consistency |-> RZero, overall_score |-> RZero,
          explanations |-> [website |-> <<>>, name |-> <<>>, address |-> <<>>],
          branch |-> "none"]
    ELSE [exc |-> "", website_match |-> website.score, name_match |-> name.score,
          address_consistency |-> address.score,
          overall_score |->
              RMin(RAdd(primary_and_secondary(branch, website.score, name.score,
                                              address.score),
                        geo_score(address.score)),
                   Hundred),
          explanations |-> [website |-> website.explanation,
                            name |-> name.explanation,
                            address |-> address.explanation],
          branch |-> branch]

compute_overall_similarity(cust, sh) ==
    combine_signals(overall_branch(cust, sh),
                    compute_website_match(dict_get(cust, "Website", Str(<<>>)),
                                          dict_get(sh, "ZI_Website__c", Str(<<>>))),
                    compute_name_match(dict_get(cust, "Name", Str(<<>>)),
                                       dict_get(sh, "ZI_Company_Name__c", Str(<<>>))),
                    compute_address_consistency_score(cust, sh))

-----------------------------------------------------------------------------
(* Candidate Index: create_hash_buckets, fast_filter_candidates            *)
(* A Python dict of lists is a sequence of [key, shells] in insertion order *)

bucket_index(buckets, key) ==
    IF \E i \in DOMAIN buckets : buckets[i].key = key
    THEN CHOOSE i \in DOMAIN buckets : buckets[i].key = key
    ELSE 0

\* if key not in buckets: buckets[key] = []; buckets[key].append(sh)
bucket_append_at(buckets, key, sh, i) ==
    IF i = 0 THEN Append(buckets, [key |-> key, shells |-> <<sh>>])
    ELSE [buckets EXCEPT ![i].shells = Append(@, sh)]

bucket_append(buckets, key, sh) ==
    bucket_append_at(buckets, key, sh, bucket_index(buckets, key))

\* buckets.get(key, [])
bucket_get(buckets, key) ==
    IF bucket_index(buckets, key) = 0 THEN <<>>
    ELSE buckets[bucket_index(buckets, key)].shells

\* variant of name_tokens_of that keeps every token, however short
name_tokens_of_any_length(name) ==
    IF ~truthy(name) THEN <<>>
    ELSE split(normalize_company_name(name.v))

\* the name tokens that key a bucket: tokens of the normalized name longer than 2
name_tokens_of(name) ==
    IF ~truthy(name) THEN <<>>
    ELSE SelectSeq(split(normalize_company_name(name.v)), LAMBDA t : Len(t) > 2)

RECURSIVE bucket_append_all(_, _, _)
bucket_append_all(buckets, keys, sh) ==
    IF keys = <<>> THEN buckets
    ELSE bucket_append_all(bucket_append(buckets, Head(keys), sh), Tail(keys), sh)

\* the website bucket of the shell's domain token, when it has one
website_bucket_add(website_buckets, domain_company, sh) ==
    IF truthy(domain_company)
    THEN bucket_append(website_buckets, domain_company.v, sh)
    ELSE website_buckets

\* the loop over shell_accounts.  An operator argument is evaluated when it is
\* first used: Evaluated makes the buckets built so far values before the next
\* shell is added, as the loop does
RECURSIVE create_hash_buckets_from(_, _, _)
create_hash_buckets_from(shells, website_buckets, name_buckets) ==
    IF ~Evaluated(website_buckets) \/ ~Evaluated(name_buckets) \/ shells = <<>>
    THEN [website_buckets |-> website_buckets, name_buckets |-> name_buckets]
    ELSE create_hash_buckets_from(
             Tail(shells),
             website_bucket_add(
                 website_buckets,
                 website_company_token(dict_get(Head(shells), "ZI_Website__c", Str(<<>>))),
                 Head(shells)),
             bucket_append_all(
                 name_buckets,
                 name_tokens_of(dict_get(Head(shells), "ZI_Company_Name__c", Str(<<>>))),
                 Head(shells)))

create_hash_buckets(shells) == create_hash_buckets_from(shells, <<>>, <<>>)

NameFilterThreshold == 10

SeqIds(shells) == {shells[i].Id : i \in DOMAIN shells}

\* STEP 1: the Ids of the shells in the bucket of the customer's domain token
ids_of_token(website_buckets, domain_company) ==
    IF truthy(domain_company)
    THEN SeqIds(bucket_get(website_buckets, domain_company.v))
    ELSE {}

website_candidate_ids(cust, hash_buckets) ==
    ids_of_token(hash_buckets.website_buckets,
                 website_company_token(dict_get(cust, "Website", Str(<<>>))))

\* STEP 2: the Ids of the shells in the buckets of the customer's name tokens,
\* consulted when STEP 1 left fewer than 10 candidates
ids_of_tokens(name_buckets, tokens) ==
    UNION {SeqIds(bucket_get(name_buckets, tokens[i])) : i \in DOMAIN tokens}

\* variant of name_candidate_ids that consults the name buckets whatever STEP 1 found
name_candidate_ids_always(cust, hash_buckets, candidates) ==
    IF truthy(dict_get(cust, "Name", Str(<<>>)))
    THEN ids_of_tokens(hash_buckets.name_buckets,
                       name_tokens_of(dict_get(cust, "Name", Str(<<>>))))
    ELSE {}

name_candidate_ids(cust, hash_buckets, candidates) ==
    IF truthy(dict_get(cust, "Name", Str(<<>>)))
       /\ Cardinality(candidates) < NameFilterThreshold
    THEN ids_of_tokens(hash_buckets.name_buckets,
                       name_tokens_of(dict_get(cust, "Name", Str(<<>>))))
    ELSE {}

RECURSIVE concat_buckets(_)
concat_buckets(buckets) ==
    IF buckets = <<>> THEN <<>> ELSE Head(buckets).shells \o concat_buckets(Tail(buckets))

\* variant of dedup_filter that does not look at seen_ids
RECURSIVE filter_without_dedup(_, _, _)
filter_without_dedup(all_shells, candidates, seen_ids) ==
    IF all_shells = <<>> THEN <<>>
    ELSE IF Head(all_shells).Id \in candidates
         THEN <<Head(all_shells)>> \o filter_without_dedup(Tail(all_shells), candidates, seen_ids)
         ELSE filter_without_dedup(Tail(all_shells), candidates, seen_ids)

\* the shells of all_shells, in order, whose Id is a candidate and not yet seen
RECURSIVE dedup_filter(_, _, _)
dedup_filter(all_shells, candidates, seen_ids) ==
    IF all_shells = <<>> THEN <<>>
    ELSE LET sh == Head(all_shells)
         IN  IF sh.Id \in candidates /\ sh.Id \notin seen_ids
             THEN <<sh>> \o dedup_filter(Tail(all_shells), candidates, seen_ids \cup {sh.Id})
             ELSE dedup_filter(Tail(all_shells), candidates, seen_ids)

\* candidates after STEP 2, given the candidates STEP 1 found
candidate_ids(cust, hash_buckets, by_website) ==
    by_website \cup name_candidate_ids(cust, hash_buckets, by_website)

filter_with_buckets(cust, hash_buckets) ==
    dedup_filter(concat_buckets(hash_buckets.website_buckets)
                     \o concat_buckets(hash_buckets.name_buckets),
                 candidate_ids(cust, hash_buckets,
                               website_candidate_ids(cust, hash_buckets)),
                 {})

fast_filter_candidates(cust, hash_buckets) == filter_with_buckets(cust, hash_buckets)

-----------------------------------------------------------------------------
(* Ranking Engine: rank_shell_candidates, find_best_shell_match            *)

\* variant of insert_descending that puts an element before its equals
RECURSIVE insert_before_equals(_, _)
insert_before_equals(sorted, x) ==
    IF sorted = <<>> THEN <<x>>
    ELSE IF RLe(Head(sorted).rank_score, x.rank_score)
         THEN <<x>> \o sorted
         ELSE <<Head(sorted)>> \o insert_before_equals(Tail(sorted), x)

\* list.sort(key=rank_score, reverse=True) is stable: an element goes after
\* every element whose score is greater than or equal to its own
RECURSIVE insert_descending(_, _)
insert_descending(sorted, x) ==
    IF sorted = <<>> THEN <<x>>
    ELSE IF RLt(Head(sorted).rank_score, x.rank_score)
         THEN <<x>> \o sorted
         ELSE <<Head(sorted)>> \o insert_descending(Tail(sorted), x)

RECURSIVE stable_sort_descending(_, _)
stable_sort_descending(items, sorted) ==
    IF items = <<>> THEN sorted
    ELSE stable_sort_descending(Tail(items), insert_descending(sorted, Head(items)))

\* one entry of scored_candidates
scored_candidate(sh, similarity_data) ==
    [shell_account |-> sh,
     scores        |-> similarity_data,
     rank_score    |-> similarity_data.overall_score]

\* the loop over candidates: one entry per candidate, in order
RECURSIVE score_candidates(_, _)
score_candidates(cust, candidates) ==
    IF candidates = <<>> THEN <<>>
    ELSE <<scored_candidate(Head(candidates),
                            compute_overall_similarity(cust, Head(candidates)))>>
         \o score_candidates(cust, Tail(candidates))

\* the sort of scored_candidates, unless scoring one of them raised
sort_scored(scored_candidates) ==
    IF \E i \in DOMAIN scored_candidates : scored_candidates[i].scores.exc # ""
    THEN [exc |-> "AttributeError", ranked |-> <<>>]
    ELSE [exc |-> "", ranked |-> stable_sort_descending(scored_candidates, <<>>)]

\* [exc, ranked]: the scored candidates sorted by rank_score, or the exception
\* compute_overall_similarity raised on one of them
rank_shell_candidates(cust, candidates) ==
    sort_scored(score_candidates(cust, candidates))

\* the dict find_best_shell_match returns (exc = ""), or the exception it lets
\* through.  lookup, candidates and ranked are its local variables
MatchResult(exc, success, message, best_match, candidate_count, total_shells, lookup, candidates, ranked) ==
    [exc |-> exc, success |-> success, message |-> message, best_match |-> best_match,
     candidate_count |-> candidate_count, total_shells |-> total_shells,
     lookup |-> lookup, candidates |-> candidates, ranked |-> ranked]

\* 'best_match': the top entry of the ranking
best_match_of(best_candidate) ==
    [shell_id            |-> best_candidate.shell_account.Id,
     shell_account       |-> best_candidate.shell_account,
     confidence_score    |-> best_candidate.rank_score,
     website_match       |-> best_candidate.scores.website_match,
     name_match          |-> best_candidate.scores.name_match,
     address_consistency |-> best_candidate.scores.address_consistency,
     explanations        |-> best_candidate.scores.explanations]

\* variant of match_from_ranking that reports the whole collection as the
\* candidates considered
match_from_ranking_counting_all(shells, lookup, candidates, ranking) ==
    IF ranking.exc # ""
    THEN MatchResult(ranking.exc, FALSE, "", None, 0, 0, lookup, candidates, <<>>)
    ELSE IF ranking.ranked = <<>>
    THEN MatchResult("", FALSE, "No viable shell candidates found", None, 0, 0,
                     lookup, candidates, ranking.ranked)
    ELSE MatchResult("", TRUE, "Found best match with",
                     best_match_of(ranking.ranked[1]),
                     Len(shells), Len(shells), lookup, candidates, ranking.ranked)

\* after STAGE 2: the result built from the ranking
match_from_ranking(shells, lookup, candidates, ranking) ==
    IF ranking.exc # ""
    THEN MatchResult(ranking.exc, FALSE, "", None, 0, 0, lookup, candidates, <<>>)
    ELSE IF ranking.ranked = <<>>
    THEN MatchResult("", FALSE, "No viable shell candidates found", None, 0, 0,
                     lookup, candidates, ranking.ranked)
    ELSE MatchResult("", TRUE, "Found best match with",
                     best_match_of(ranking.ranked[1]),
                     Len(candidates), Len(shells), lookup, candidates, ranking.ranked)

\* after STAGE 1: fall back to all shells when the lookup is empty, then rank
match_from_candidates(cust, shells, lookup, candidates) ==
    match_from_ranking(shells, lookup, candidates,
                       rank_shell_candidates(cust, candidates))

\* variant of match_from_lookup without the fallback to the whole collection
match_from_lookup_no_fallback(cust, shells, lookup) ==
    match_from_candidates(cust, shells, lookup, lookup)

\* lines 414-415: an empty candidate list is replaced by all shells
match_from_lookup(cust, shells, lookup) ==
    match_from_candidates(cust, shells, lookup,
                          IF lookup = <<>> THEN shells ELSE lookup)

\* how often one call of find_best_shell_match executes create_hash_buckets:
\* once, behind the early return for an empty collection
hash_bucket_builds(shells) == IF shells = <<>> THEN 0 ELSE 1

find_best_shell_match(cust, shells) ==
    IF shells = <<>>
    THEN MatchResult("", FALSE, "No shell accounts provided", None, 0, 0,
                     <<>>, <<>>, <<>>)
    ELSE match_from_lookup(cust, shells,
                           fast_filter_candidates(cust, create_hash_buckets(shells)))

-----------------------------------------------------------------------------
(* The service object and one call of find_best_shell_match on it          *)

\* the attributes __init__ sets
FuzzyMatchingService ==
    [domain_prefixes |-> domain_prefixes, domain_suffixes |-> domain_suffixes]

\* the objects a call leaves behind and what it returns
CallOutcome(self, cust, shells, returned) ==
    [self |-> self, customer |-> cust, shell_accounts |-> shells, returned |-> returned]

\* variant of the call that keeps the hash buckets of its first collection
\* in the service object and reads them in every later call
find_best_shell_match_caching(self, cust, shells) ==
    LET hash_buckets == IF "hash_buckets" \in DOMAIN self THEN self.hash_buckets
                        ELSE create_hash_buckets(shells)
    IN  CallOutcome([domain_prefixes |-> self.domain_prefixes,
                     domain_suffixes |-> self.domain_suffixes,
                     hash_buckets |-> hash_buckets],
                    cust, shells,
                    IF shells = <<>>
                    THEN find_best_shell_match(cust, shells)
                    ELSE match_from_lookup(cust, shells,
                                           fast_filter_candidates(cust, hash_buckets)))

\* self.find_best_shell_match(cust, shells): no statement of the call assigns
\* to an attribute of self, to a key of cust or of a shell, or to the list
find_best_shell_match_call(self, cust, shells) ==
    CallOutcome(self, cust, shells, find_best_shell_match(cust, shells))

-----------------------------------------------------------------------------
(* Batch matching: routes/api_routes.py, services/salesforce_service.py    *)

\* SELECT ... FROM Account WHERE Id IN (ids): the stored records whose Id is
\* one of the identifiers asked for, each once (identifiers of 15 characters
\* are converted to 18 first; the identifiers here have neither length)
soql_where_id_in(accounts, account_ids) ==
    SelectSeq(accounts,
              LAMBDA rec : \E i \in DOMAIN account_ids : rec.Id = Str(strip(account_ids[i])))

\* (account list, or None when the connection or the query fails)
get_accounts_bulk(accounts, account_ids, connected) ==
    IF ~connected THEN [none |-> TRUE, data |-> <<>>]
    ELSE [none |-> FALSE, data |-> soql_where_id_in(accounts, account_ids)]

\* variant of the filter that keeps the flagged accounts among the clean ones
filter_keeping_flagged(customer_accounts, bad) ==
    [clean   |-> customer_accounts,
     flagged |-> SelectSeq(customer_accounts, LAMBDA account : account.Id \in bad)]

\* bad holds the Id of the accounts check_account_for_bad_domains finds bad;
\* the Bad_Domain key added to each copy is read by no later step but the
\* FLAGGED row's reason
filter_customer_accounts_by_bad_domains(customer_accounts, bad) ==
    [clean   |-> SelectSeq(customer_accounts, LAMBDA account : account.Id \notin bad),
     flagged |-> SelectSeq(customer_accounts, LAMBDA account : account.Id \in bad)]

\* the 'ai_assessment' entry of a match pair: three .get with defaults
ai_assessment_entry(ai_assessment) ==
    [confidence_score    |-> IF ai_assessment.confidence_score.t = "missing"
                             THEN JNumber(0) ELSE ai_assessment.confidence_score,
     explanation_bullets |-> IF ai_assessment.explanation_bullets.t = "missing"
                             THEN JList(<<>>) ELSE ai_assessment.explanation_bullets,
     success             |-> ai_assessment.success]

match_pair_of(cust, match_result, ai_assessment) ==
    [customer_account    |-> cust,
     recommended_shell   |-> match_result.best_match.shell_account,
     match_confidence    |-> match_result.best_match.confidence_score,
     website_match       |-> match_result.best_match.website_match,
     name_match          |-> match_result.best_match.name_match,
     address_consistency |-> match_result.best_match.address_consistency,
     explanations        |-> match_result.best_match.explanations,
     ai_assessment       |-> ai_assessment_entry(ai_assessment),
     candidate_count     |-> match_result.candidate_count,
     total_shells        |-> match_result.total_shells]

unmatched_of(cust, match_result) ==
    [customer_account |-> cust, reason |-> match_result.message]

\* what one pass of the loop over clean_customers does to the two lists:
\* [exc, matched_pairs, unmatched_customers, ai_called]
LoopPass(exc, matched_pairs, unmatched_customers, ai_called) ==
    [exc |-> exc, matched_pairs |-> matched_pairs,
     unmatched_customers |-> unmatched_customers, ai_called |-> ai_called]

\* variant of the loop body that keeps a pair only when the assessment
\* reports success
loop_body_needing_assessment(cust, shell_data, llm, matched_pairs, unmatched_customers) ==
    LET match_result == find_best_shell_match(cust, shell_data)
        ai_assessment == get_ai_match_assessment(llm)
    IN  IF match_result.exc # ""
        THEN LoopPass(match_result.exc, matched_pairs, unmatched_customers, FALSE)
        ELSE IF match_result.success /\ ai_assessment.success
        THEN LoopPass("", Append(matched_pairs, match_pair_of(cust, match_result, ai_assessment)),
                      unmatched_customers, TRUE)
        ELSE IF match_result.success
        THEN LoopPass("", matched_pairs, unmatched_customers, TRUE)
        ELSE LoopPass("", matched_pairs,
                      Append(unmatched_customers, unmatched_of(cust, match_result)), FALSE)

\* the body of `for customer in clean_customers`, llm being what the LLM
\* client does when it is called in this pass
loop_body(cust, shell_data, llm, matched_pairs, unmatched_customers) ==
    LET match_result == find_best_shell_match(cust, shell_data)
        ai_assessment == get_ai_match_assessment(llm)
    IN  IF match_result.exc # ""
        THEN LoopPass(match_result.exc, matched_pairs, unmatched_customers, FALSE)
        ELSE IF match_result.success
        THEN LoopPass("", Append(matched_pairs, match_pair_of(cust, match_result, ai_assessment)),
                      unmatched_customers, TRUE)
        ELSE LoopPass("", matched_pairs,
                      Append(unmatched_customers, unmatched_of(cust, match_result)), FALSE)

-----------------------------------------------------------------------------
(* Export: services/excel_service.py create_matching_results_export        *)

\* the characters of the names, in code-point order (32, 44..58, 65..90,
\* 97..122)
AsciiChars ==
    <<" ",",","-",".","/","0","1","2","3","4","5","6","7","8","9",":",
      "A","B","C","D","E","F","G","H","I","J","K","L","M",
      "N","O","P","Q","R","S","T","U","V","W","X","Y","Z",
      "a","b","c","d","e","f","g","h","i","j","k","l","m",
      "n","o","p","q","r","s","t","u","v","w","x","y","z">>

\* the rank of c among them: ord(c) < ord(d) as for the code points
ord(c) == CHOOSE i \in DOMAIN AsciiChars : AsciiChars[i] = c

\* a < b for two str: by code point at the first difference, else by length
str_lt(a, b) ==
    LET differ == {i \in 1..Len(a) : i <= Len(b) /\ a[i] # b[i]} IN
    IF differ = {} THEN Len(a) < Len(b)
    ELSE LET first == CHOOSE i \in differ : \A j \in differ : i <= j IN
         ord(a[first]) < ord(b[first])

InvalidName == <<"I","N","V","A","L","I","D"," ","A","C","C","O","U","N","T"," ","I","D">>

\* one entry of all_customer_results: the customer, the status and what the
\* row shows of the match (ai is the confidence_score of 'ai_assessment')
ResultEntry(cust, status, match_confidence, ai) ==
    [customer |-> cust, status |-> status, match_confidence |-> match_confidence, ai |-> ai]

matched_entries(matched_pairs) ==
    [i \in DOMAIN matched_pairs |->
        ResultEntry(matched_pairs[i].customer_account, "MATCHED",
                    matched_pairs[i].match_confidence,
                    matched_pairs[i].ai_assessment.confidence_score)]

unmatched_entries(unmatched_customers) ==
    [i \in DOMAIN unmatched_customers |->
        ResultEntry(unmatched_customers[i].customer_account, "UNMATCHED", RZero, JNumber(0))]

flagged_entries(flagged_customers) ==
    [i \in DOMAIN flagged_customers |->
        ResultEntry(flagged_customers[i], "FLAGGED", RZero, JNumber(0))]

invalid_entries(invalid_customers) ==
    [i \in DOMAIN invalid_customers |->
        ResultEntry([Id |-> Str(invalid_customers[i]), Name |-> Str(InvalidName),
                     Website |-> Str(<<>>), BillingCountry |-> Str(<<>>),
                     BillingState |-> Str(<<>>), BillingCity |-> Str(<<>>),
                     BillingPostalCode |-> Str(<<>>)],
                    "INVALID", RZero, JNumber(0))]

\* key=lambda x: x['customer'].get('Name', '')
sort_key(entry) == dict_get(entry.customer, "Name", Str(<<>>))

\* the entry goes behind every entry whose key is not greater: list.sort is
\* stable
RECURSIVE insert_ascending(_, _)
insert_ascending(sorted, x) ==
    IF sorted = <<>> THEN <<x>>
    ELSE IF str_lt(sort_key(x).v, sort_key(Head(sorted)).v) THEN <<x>> \o sorted
    ELSE <<Head(sorted)>> \o insert_ascending(Tail(sorted), x)

RECURSIVE stable_sort_ascending(_, _)
stable_sort_ascending(items, sorted) ==
    IF ~Evaluated(sorted) \/ items = <<>> THEN sorted
    ELSE stable_sort_ascending(Tail(items), insert_ascending(sorted, Head(items)))

\* all_customer_results.sort(...): comparing None with a str or with None
\* raises TypeError, and every entry of a list of two or more is compared
sort_by_name(all_customer_results) ==
    IF Len(all_customer_results) >= 2
       /\ \E i \in DOMAIN all_customer_results : sort_key(all_customer_results[i]).k = "none"
    THEN [exc |-> "TypeError", rows |-> <<>>]
    ELSE [exc |-> "", rows |-> stable_sort_ascending(all_customer_results, <<>>)]

\* row_data: `ai_assessment.get('confidence_score', 0) > 0` raises TypeError
\* when the score is a str or None
write_rows(sorted) ==
    IF sorted.exc # "" THEN sorted
    ELSE IF \E i \in DOMAIN sorted.rows : sorted.rows[i].ai.t \in {"str", "null"}
    THEN [exc |-> "TypeError", rows |-> <<>>]
    ELSE sorted

\* [success, rows]: the rows of the "Customer Match Results" sheet, or
\* success = False when anything raised
create_matching_results_export(matched_pairs, unmatched_customers, flagged_customers, invalid_customers) ==
    LET written == write_rows(sort_by_name(matched_entries(matched_pairs)
                                               \o unmatched_entries(unmatched_customers)
                                               \o flagged_entries(flagged_customers)
                                               \o invalid_entries(invalid_customers)))
    IN  [success |-> written.exc = "", rows |-> written.rows]

-----------------------------------------------------------------------------
(* Inputs: bounded sets of strings and of records                          *)

\* every string over alphabet of length at most n
Strings(alphabet, n) == UNION {[1..k -> alphabet] : k \in 0..n}

MaxNameLen == 5

NameAlphabet == {"A", "c", "o", " ", "."}

MaxFuzzyLen == 3

FuzzyAlphabet == {"A", "a", "c", "o", " "}

MaxShells == 3

\* company names
NameAbcInc  == <<"A","b","c"," ","I","n","c">>
NameAbc     == <<"a","b","c">>
NameAbdCo   == <<"A","b","d"," ","C","o",".">>
NameDots    == <<".",".",".">>
NameAb      == <<"a","b">>
NameAbcXyz  == <<"A","b","c"," ","X","y","z">>
NameXyz     == <<"x","y","z">>

\* websites
SiteAbcCom    == <<"a","b","c",".","c","o","m">>
SiteWwwAbcIo  == <<"h","t","t","p","s",":","/","/","w","w","w",".","a","b","c",".","i","o">>
SiteAbdCo     == <<"a","b","d",".","c","o">>
SiteXyzPath   == <<"h","t","t","p",":","/","/","X","Y","Z",".","o","r","g","/","x">>
SiteDotCom    == <<".","c","o","m">>
SiteSchemeOnly == <<"h","t","t","p","s",":","/","/">>

\* address profiles: <<country, state, city, postal code>>
AddrMissing == <<Missing, Missing, Missing, Missing>>
AddrEmpty   == <<Str(<<>>), Str(<<>>), Str(<<>>), Str(<<>>)>>
AddrNull    == <<None, None, None, None>>
AddrUpper   == <<Str(<<"U","S">>), Str(<<"T","X">>), Str(<<"A"," ">>), Str(<<"1">>)>>
AddrLower   == <<Str(<<"u","s">>), Str(<<"t","x">>), Str(<<"a">>), Str(<<"2">>)>>
AddrOneNull == <<Str(<<"U","S">>), Missing, None, Str(<<>>)>>
AddrPartial == <<Str(<<"U","S">>), Missing, Str(<<"b">>), Str(<<" ">>)>>

CustomerRecord(id, name, website, addr) ==
    [Id |-> id, Name |-> name, Website |-> website,
     BillingCountry |-> addr[1], BillingState |-> addr[2],
     BillingCity |-> addr[3], BillingPostalCode |-> addr[4]]

ShellRecord(id, name, website, addr) ==
    [Id |-> id, ZI_Company_Name__c |-> name, ZI_Website__c |-> website,
     ZI_Company_Country__c |-> addr[1], ZI_Company_State__c |-> addr[2],
     ZI_Company_City__c |-> addr[3], ZI_Company_Postal_Code__c |-> addr[4]]

CustomerId == Str(<<"c">>)

\* the Id of the i-th shell of a collection: identifiers are unique
ShellId(i) == Str(<<DigitChars[i + 1]>>)

NoCustomer == CustomerRecord(Missing, Missing, Missing, AddrMissing)

NoShell == ShellRecord(Missing, Missing, Missing, AddrMissing)

-----------------------------------------------------------------------------
(* SpecNormalize: normalize_company_name applied to a name, then to its    *)
(* own output                                                              *)

InitNormalize ==
    /\ pc = "start"
    /\ completion = NoCompletion
    /\ request = NoRequest
    /\ str1 \in Strings(NameAlphabet, MaxNameLen)
    /\ str2 = <<>>
    /\ customer = NoCustomer
    /\ shell = NoShell
    /\ shell_accounts = <<>>
    /\ result = <<>>

\* result collects normalize(str1), then normalize(normalize(str1))
NormalizeName ==
    /\ pc \in {"start", "once"}
    /\ result' = Append(result, normalize_company_name(
                                    IF pc = "start" THEN str1 ELSE result[1]))
    /\ pc' = IF pc = "start" THEN "once" ELSE "twice"
    /\ UNCHANGED <<str1, str2, customer, shell, shell_accounts, completion, request>>

NextNormalize == NormalizeName

SpecNormalize == InitNormalize /\ [][NextNormalize]_vars

\* C8: normalize_company_name is idempotent: normalizing the output of a
\* normalization returns it unchanged
C8_NormalizeIdempotent == pc = "twice" => result[2] = result[1]

-----------------------------------------------------------------------------
(* SpecFuzzy: compute_fuzzy_similarity on a pair of strings, in both orders *)

InitFuzzy ==
    /\ pc = "start"
    /\ completion = NoCompletion
    /\ request = NoRequest
    /\ str1 \in Strings(FuzzyAlphabet, MaxFuzzyLen)
    /\ str2 \in Strings(FuzzyAlphabet, MaxFuzzyLen)
    /\ customer = NoCustomer
    /\ shell = NoShell
    /\ shell_accounts = <<>>
    /\ result = <<>>

FuzzyForward ==
    /\ pc = "start"
    /\ result' = <<compute_fuzzy_similarity(str1, str2)>>
    /\ pc' = "forward"
    /\ UNCHANGED <<str1, str2, customer, shell, shell_accounts, completion, request>>

FuzzyBackward ==
    /\ pc = "forward"
    /\ result' = Append(result, compute_fuzzy_similarity(str2, str1))
    /\ pc' = "both"
    /\ UNCHANGED <<str1, str2, customer, shell, shell_accounts, completion, request>>

NextFuzzy == FuzzyForward \/ FuzzyBackward

SpecFuzzy == InitFuzzy /\ [][NextFuzzy]_vars

\* C9: compute_fuzzy_similarity(a, b) = compute_fuzzy_similarity(b, a); it is
\* 1.0 when both normalize to the same non-empty string and 0.0 when either
\* normalizes to the empty string
C9_FuzzySymmetric ==
    pc = "both" =>
        LET norm1 == normalize_company_name(str1)
            norm2 == normalize_company_name(str2)
        IN  /\ REq(result[1], result[2])
            /\ (norm1 = norm2 /\ norm1 # <<>>) => REq(result[1], Rat(1, 1))
            /\ (norm1 = <<>> \/ norm2 = <<>>) => REq(result[1], RZero)

-----------------------------------------------------------------------------
(* SpecAddress: compute_address_consistency_score on a customer and a shell *)
(* whose four address components vary independently                        *)

\* what a customer address component can hold: no key, null, blank, a value
\* with upper case and trailing space, another value
CustomerAddressValues == {Missing, None, Str(<<" ">>), Str(<<"A", " ">>), Str(<<"b">>)}

ShellAddressValues == {Missing, None, Str(<<" ">>), Str(<<"a">>), Str(<<"b">>)}

InitAddress ==
    /\ pc = "start"
    /\ completion = NoCompletion
    /\ request = NoRequest
    /\ str1 = <<>>
    /\ str2 = <<>>
    /\ \E addr \in [1..4 -> CustomerAddressValues] :
           customer = CustomerRecord(CustomerId, Missing, Missing, addr)
    /\ \E addr \in [1..4 -> ShellAddressValues] :
           shell = ShellRecord(ShellId(1), Missing, Missing, addr)
    /\ shell_accounts = <<>>
    /\ result = <<>>

ComputeAddressConsistency ==
    /\ pc = "start"
    /\ result' = compute_address_consistency_score(customer, shell)
    /\ pc' = "done"
    /\ UNCHANGED <<str1, str2, customer, shell, shell_accounts, completion, request>>

NextAddress == ComputeAddressConsistency

SpecAddress == InitAddress /\ [][NextAddress]_vars

\* the trimmed, lower-cased text of an address component; absent ones give ''
TrimmedLower(x) == IF x.k = "str" THEN lower(strip(x.v)) ELSE <<>>

\* both sides hold a value that is non-empty once trimmed
BothPresent(i) ==
    /\ TrimmedLower(customer[AddressFields[i].ckey]) # <<>>
    /\ TrimmedLower(shell[AddressFields[i].skey]) # <<>>

SameValue(i) ==
    TrimmedLower(customer[AddressFields[i].ckey]) = TrimmedLower(shell[AddressFields[i].skey])

FieldPoints == <<30, 30, 30, 10>>

Granted(i) == IF BothPresent(i) /\ SameValue(i) THEN FieldPoints[i] ELSE 0

AddressReturned == pc = "done" /\ result.exc = ""

\* C6: the address score is the sum of country +30, state +30, city +30 and
\* postal code +10, each granted exactly when both sides have a non-empty
\* (trimmed) value and the trimmed, lower-cased values are equal; four equal
\* components score 100 and nothing scores more
C6_AddressScoreIsSum ==
    AddressReturned =>
        /\ result.score = Rat(Granted(1) + Granted(2) + Granted(3) + Granted(4), 1)
        /\ RLe(result.score, Hundred)
        /\ (\A i \in 1..4 : BothPresent(i) /\ SameValue(i)) <=> result.score = Hundred

\* the four components are present on both sides and equal up to case and
\* surrounding blanks, not character for character, and the score is 100
C6_Witness ==
    /\ AddressReturned
    /\ REq(result.score, Hundred)
    /\ customer.BillingCity.v # shell.ZI_Company_City__c.v

\* C7: a component is listed as a mismatch if and only if both sides have a
\* non-empty value and the trimmed, lower-cased values differ
C7_MismatchListed ==
    AddressReturned =>
        \A i \in 1..4 :
            (AddressFields[i].label \in Range(result.mismatches))
                <=> (BothPresent(i) /\ ~SameValue(i))

-----------------------------------------------------------------------------
(* SpecPair: compute_overall_similarity on one customer and one shell, each *)
(* optional field missing, null, empty or set                              *)

PairNames ==
    {Missing, None, Str(<<>>), Str(NameAbcInc), Str(NameAbc), Str(NameAbdCo), Str(NameDots)}

PairWebsites ==
    {Missing, None, Str(<<>>), Str(SiteAbcCom), Str(SiteWwwAbcIo), Str(SiteAbdCo),
     Str(SiteDotCom), Str(SiteSchemeOnly)}

PairAddresses ==
    {AddrMissing, AddrEmpty, AddrNull, AddrUpper, AddrLower, AddrOneNull, AddrPartial}

\* the records of the pool, and the dict without any key
PairCustomers ==
    {CustomerRecord(CustomerId, n, w, a) :
        n \in PairNames, w \in PairWebsites, a \in PairAddresses} \cup {NoCustomer}

PairShells ==
    {ShellRecord(ShellId(1), n, w, a) :
        n \in PairNames, w \in PairWebsites, a \in PairAddresses} \cup {NoShell}

InitPair ==
    /\ pc = "start"
    /\ completion = NoCompletion
    /\ request = NoRequest
    /\ str1 = <<>>
    /\ str2 = <<>>
    /\ customer \in PairCustomers
    /\ shell \in PairShells
    /\ shell_accounts = <<>>
    /\ result = <<>>

ComputeOverallSimilarity ==
    /\ pc = "start"
    /\ result' = compute_overall_similarity(customer, shell)
    /\ pc' = "done"
    /\ UNCHANGED <<str1, str2, customer, shell, shell_accounts, completion, request>>

NextPair == ComputeOverallSimilarity

SpecPair == InitPair /\ [][NextPair]_vars

PairReturned == pc = "done" /\ result.exc = ""

\* C2: compute_overall_similarity never raises, whatever optional fields are
\* missing, null or empty
C2_NeverRaises == pc = "done" => result.exc = ""

InRange(x) == RLe(RZero, x) /\ RLe(x, Hundred)

\* C4: the three signal scores and the overall score lie in [0, 100]
C4_ScoresInRange ==
    PairReturned =>
        /\ InRange(result.website_match)
        /\ InRange(result.name_match)
        /\ InRange(result.address_consistency)
        /\ InRange(result.overall_score)

\* a pair whose website, name and address signals are all positive
C4_Witness ==
    /\ PairReturned
    /\ RLt(RZero, result.website_match)
    /\ RLt(RZero, result.name_match)
    /\ RLt(RZero, result.address_consistency)
    /\ RLt(Rat(90, 1), result.overall_score)

Present(x) == x.k = "str" /\ x.v # <<>>

BothWebsites == Present(customer.Website) /\ Present(shell.ZI_Website__c)

BothNames == Present(customer.Name) /\ Present(shell.ZI_Company_Name__c)

\* x * 0.6, x * 0.3, x * 0.6 / 100, x * 0.1 / 100
Times06(x) == RMul(x, Rat(6, 10))
Times03(x) == RMul(x, Rat(3, 10))
Times06Over100(x) == RMul(x, Rat(6, 1000))
Times01Over100(x) == RMul(x, Rat(1, 1000))

\* C5: the arm is chosen from field presence only, website first, then name,
\* then address; overall is the arm's value plus 0.1 * (address / 100), capped
\* at 100.  With both websites present the arm is the website arm whatever
\* the names are
C5_BranchPrecedence ==
    PairReturned =>
        LET w   == result.website_match
            n   == result.name_match
            a   == result.address_consistency
            geo == Times01Over100(a)
        IN  /\ result.branch = (IF BothWebsites THEN "website"
                                ELSE IF BothNames THEN "name" ELSE "address")
            /\ BothWebsites =>
                   REq(result.overall_score,
                       RMin(RAdd(RAdd(Times06(w), Times03(n)), geo), Hundred))
            /\ (~BothWebsites /\ BothNames) =>
                   REq(result.overall_score, RMin(RAdd(Times06(n), geo), Hundred))
            /\ (~BothWebsites /\ ~BothNames) =>
                   REq(result.overall_score, RMin(RAdd(Times06Over100(a), geo), Hundred))

\* both websites present and a name absent on one side: the website arm ran
C5_Witness ==
    /\ PairReturned
    /\ BothWebsites /\ ~BothNames
    /\ result.branch = "website"
    /\ RLt(RZero, result.website_match)

\* the signal has nothing to compare on one side
WebsiteUnavailable ==
    \/ ~truthy(website_company_token(customer.Website))
    \/ ~truthy(website_company_token(shell.ZI_Website__c))

NameUnavailable == ~Present(customer.Name) \/ ~Present(shell.ZI_Company_Name__c)

AddressUnavailable == \A i \in 1..4 : ~BothPresent(i)

\* C10: a signal with nothing to compare on one side scores exactly 0 and is
\* returned as a value; the three explanations returned are never empty
C10_UnavailableSignalIsZero ==
    pc = "done" =>
        /\ result.exc = ""
        /\ WebsiteUnavailable => REq(result.website_match, RZero)
        /\ NameUnavailable => REq(result.name_match, RZero)
        /\ AddressUnavailable => REq(result.address_consistency, RZero)
        /\ result.explanations.website # <<>>
        /\ result.explanations.name # <<>>
        /\ result.explanations.address # <<>>

-----------------------------------------------------------------------------
(* Spec: find_best_shell_match on one customer and a shell collection      *)

\* shell records without their Id: <<name, website, address>>
ShellTemplates ==
    { <<Str(NameAbcInc), Str(SiteAbcCom),   AddrUpper>>,
      <<Str(NameAbc),    Missing,           AddrLower>>,
      <<Str(NameAbcXyz), Str(SiteAbdCo),    AddrMissing>>,
      <<Missing,         Str(SiteWwwAbcIo), AddrMissing>>,
      <<Str(NameAb),     Str(SiteDotCom),   AddrEmpty>>,
      <<Str(NameAbdCo),  Str(<<>>),         AddrPartial>>,
      <<None,            None,              AddrNull>> }

Customers ==
    { CustomerRecord(CustomerId, Str(NameAbcInc), Str(SiteWwwAbcIo), AddrUpper),
      CustomerRecord(CustomerId, Str(NameAbc),    Missing,           AddrLower),
      CustomerRecord(CustomerId, Str(NameXyz),    Str(SiteXyzPath),  AddrMissing),
      CustomerRecord(CustomerId, Missing,         Str(SiteAbdCo),    AddrEmpty),
      CustomerRecord(CustomerId, Str(NameAb),     Str(<<>>),         AddrPartial),
      CustomerRecord(CustomerId, Str(NameDots),   Str(SiteDotCom),   AddrMissing),
      CustomerRecord(CustomerId, None,            None,              AddrNull) }

\* the shell collections: up to MaxShells records, the i-th with the i-th Id
ShellCollections ==
    UNION { { [i \in 1..n |-> ShellRecord(ShellId(i), t[i][1], t[i][2], t[i][3])] :
                  t \in [1..n -> ShellTemplates] } : n \in 0..MaxShells }

Init ==
    /\ pc = "start"
    /\ completion = NoCompletion
    /\ request = NoRequest
    /\ str1 = <<>>
    /\ str2 = <<>>
    /\ customer \in Customers
    /\ shell = NoShell
    /\ shell_accounts \in ShellCollections
    /\ result = <<>>

FindBestShellMatch ==
    /\ pc = "start"
    /\ result' = find_best_shell_match(customer, shell_accounts)
    /\ pc' = "done"
    /\ UNCHANGED <<str1, str2, customer, shell, shell_accounts, completion, request>>

Next == FindBestShellMatch

Spec == Init /\ [][Next]_vars

ShellIds == {shell_accounts[i].Id : i \in DOMAIN shell_accounts}

ScoredIds == {result.ranked[i].shell_account.Id : i \in DOMAIN result.ranked}

\* C1: for a non-empty shell collection the call returns success with a
\* best_match whose shell_id is the Id of a shell of the collection; when the
\* index lookup is empty every shell is scored (candidate_count = total_shells)
C1_AlwaysFindsAShell ==
    (pc = "done" /\ shell_accounts # <<>>) =>
        /\ result.exc = ""
        /\ result.success
        /\ result.best_match.shell_id \in ShellIds
        /\ result.lookup = <<>> =>
               /\ ScoredIds = ShellIds
               /\ result.candidate_count = result.total_shells
               /\ result.total_shells = Len(shell_accounts)

\* C3: the call returns a failure result exactly when the shell collection
\* is empty, with the message 'No shell accounts provided' and as a value;
\* 'No viable shell candidates found' is never returned
C3_FailureOnlyWhenNoShells ==
    pc = "done" =>
        /\ (result.exc = "" /\ ~result.success) <=> shell_accounts = <<>>
        /\ (result.exc = "" /\ ~result.success) =>
               /\ result.message = "No shell accounts provided"
               /\ result.best_match = None
        /\ result.message # "No viable shell candidates found"

\* the call on an empty collection has returned the failure result as a value
C3_Witness ==
    /\ pc = "done"
    /\ shell_accounts = <<>>
    /\ result.exc = ""
    /\ ~result.success
    /\ result.message = "No shell accounts provided"

-----------------------------------------------------------------------------
(* compute_website_match on bounded URLs                                   *)

MaxTokenLen == 2

TokenAlphabet == {"a", "B", "-"}

UrlSchemes == {<<>>, HttpScheme, HttpsScheme}

UrlPrefixes == {<<>>, domain_prefixes[1]}

UrlSuffixes == {<<>>, domain_suffixes[1], domain_suffixes[7]}

\* scheme, known prefix, a short host label, known suffix
WebsiteStrings ==
    {sc \o pre \o body \o suf :
        sc \in UrlSchemes, pre \in UrlPrefixes,
        body \in Strings(TokenAlphabet, MaxTokenLen), suf \in UrlSuffixes}

InitWebsite ==
    /\ pc = "start"
    /\ completion = NoCompletion
    /\ request = NoRequest
    /\ str1 \in WebsiteStrings
    /\ str2 \in WebsiteStrings
    /\ customer = NoCustomer
    /\ shell = NoShell
    /\ shell_accounts = <<>>
    /\ result = Signal(RZero, <<>>)

ComputeWebsiteMatch ==
    /\ pc = "start"
    /\ result' = compute_website_match(Str(str1), Str(str2))
    /\ pc' = "done"
    /\ UNCHANGED <<str1, str2, customer, shell, shell_accounts, completion, request>>

NextWebsite == ComputeWebsiteMatch

SpecWebsite == InitWebsite /\ [][NextWebsite]_vars

CustomerToken == website_company_token(Str(str1))

ShellToken == website_company_token(Str(str2))

\* C11: when the customer URL and the shell URL yield the same non-empty
\* company token, compute_website_match returns a score of exactly 100
C11_SameTokenScores100 ==
    (pc = "done" /\ truthy(CustomerToken) /\ CustomerToken = ShellToken) =>
        REq(result.score, Hundred)

\* two different URLs (prefix and suffix differ) with the same token scored 100
C11_Witness ==
    /\ pc = "done"
    /\ str1 # str2
    /\ startswith(str1, HttpsScheme \o domain_prefixes[1])
    /\ endswith(str1, domain_suffixes[1])
    /\ endswith(str2, domain_suffixes[7])
    /\ truthy(CustomerToken)
    /\ CustomerToken = ShellToken
    /\ REq(result.score, Hundred)

-----------------------------------------------------------------------------
(* Candidate Index: create_hash_buckets then fast_filter_candidates        *)

NameAbcAbc == <<"a","b","c"," ","A","B","C">>

\* <<name, website>> of the shells of a small collection
IndexShellTemplates ==
    { <<Str(NameAbcInc), Str(SiteAbcCom)>>,
      <<Str(NameAbcXyz), Str(SiteAbdCo)>>,
      <<Missing,         Str(SiteWwwAbcIo)>>,
      <<Str(NameAb),     Str(SiteDotCom)>>,
      <<Str(NameAbcAbc), Missing>>,
      <<Str(NameXyz),    Str(SiteAbcCom)>>,
      <<None,            None>> }

IndexCustomers ==
    { CustomerRecord(CustomerId, n, w, AddrMissing) :
        n \in {Missing, Str(NameAbc), Str(NameAbcXyz), Str(NameAb)},
        w \in {Missing, None, Str(SiteAbcCom), Str(SiteAbdCo)} }

IndexCollections ==
    UNION { { [i \in 1..n |-> ShellRecord(ShellId(i), t[i][1], t[i][2], AddrMissing)] :
                  t \in [1..n -> IndexShellTemplates] } : n \in 0..MaxShells }

\* two-digit identifiers for the shells of a large collection
BigShellId(i) == Str(<<DigitChars[(i \div 10) + 1], DigitChars[(i % 10) + 1]>>)

\* n shells whose website gives the token abc and, at position pos, one shell
\* that has only the name abc
BigCollection(n, pos, t) ==
    [i \in 1..(n + 1) |->
        IF i = pos THEN ShellRecord(BigShellId(i), Str(NameAbc), Missing, AddrMissing)
        ELSE ShellRecord(BigShellId(i), t[1], t[2], AddrMissing)]

\* collections around the threshold of STEP 2
BigCollections ==
    { BigCollection(n, pos, t) :
        n \in (NameFilterThreshold - 1)..(NameFilterThreshold + 1),
        pos \in {1, NameFilterThreshold},
        t \in { <<Missing, Str(SiteAbcCom)>>, <<Str(NameAbcInc), Str(SiteWwwAbcIo)>> } }

InitIndex ==
    /\ pc = "start"
    /\ completion = NoCompletion
    /\ request = NoRequest
    /\ str1 = <<>>
    /\ str2 = <<>>
    /\ customer \in IndexCustomers
    /\ shell = NoShell
    /\ shell_accounts \in IndexCollections \cup BigCollections
    /\ result = [hash_buckets |-> [website_buckets |-> <<>>, name_buckets |-> <<>>],
                 lookup |-> <<>>]

CreateHashBuckets ==
    /\ pc = "start"
    /\ result' = [result EXCEPT !.hash_buckets = create_hash_buckets(shell_accounts)]
    /\ pc' = "indexed"
    /\ UNCHANGED <<str1, str2, customer, shell, shell_accounts, completion, request>>

FastFilterCandidates ==
    /\ pc = "indexed"
    /\ result' = [result EXCEPT !.lookup = fast_filter_candidates(customer, result.hash_buckets)]
    /\ pc' = "done"
    /\ UNCHANGED <<str1, str2, customer, shell, shell_accounts, completion, request>>

NextIndex == CreateHashBuckets \/ FastFilterCandidates

SpecIndex == InitIndex /\ [][NextIndex]_vars

\* the company token of a shell's website, or None
ShellTokenOf(sh) == website_company_token(dict_get(sh, "ZI_Website__c", Str(<<>>)))

\* the tokens longer than 2 characters of a normalized name value
LongTokens(name) ==
    IF ~truthy(name) THEN {}
    ELSE {t \in Range(split(normalize_company_name(name.v))) : Len(t) > 2}

ShellLongTokens(sh) == LongTokens(dict_get(sh, "ZI_Company_Name__c", Str(<<>>)))

\* the indices of the buckets that hold sh
BucketsHolding(buckets, sh) == {b \in DOMAIN buckets : sh \in Range(buckets[b].shells)}

BucketKeys(buckets) == {buckets[b].key : b \in DOMAIN buckets}

Indexed == pc \in {"indexed", "done"}

\* C12: every shell is in at most one website bucket, the one keyed by its
\* own company token when it has one; it is in the name bucket of t exactly
\* when t is a token longer than 2 characters of its normalized name; and
\* every record of a bucket is a shell of the collection
C12_BucketMembership ==
    Indexed =>
        /\ \A i \in DOMAIN shell_accounts :
               /\ Cardinality(BucketsHolding(result.hash_buckets.website_buckets,
                                             shell_accounts[i])) <= 1
               /\ \A b \in BucketsHolding(result.hash_buckets.website_buckets,
                                          shell_accounts[i]) :
                      ShellTokenOf(shell_accounts[i])
                          = Str(result.hash_buckets.website_buckets[b].key)
               /\ truthy(ShellTokenOf(shell_accounts[i])) =>
                      BucketsHolding(result.hash_buckets.website_buckets,
                                     shell_accounts[i]) # {}
               /\ \A t \in BucketKeys(result.hash_buckets.name_buckets)
                              \cup ShellLongTokens(shell_accounts[i]) :
                      (shell_accounts[i]
                           \in Range(bucket_get(result.hash_buckets.name_buckets, t)))
                      <=> t \in ShellLongTokens(shell_accounts[i])
        /\ \A b \in DOMAIN result.hash_buckets.website_buckets :
               Range(result.hash_buckets.website_buckets[b].shells) \subseteq Range(shell_accounts)
        /\ \A b \in DOMAIN result.hash_buckets.name_buckets :
               Range(result.hash_buckets.name_buckets[b].shells) \subseteq Range(shell_accounts)

\* a collection has been indexed in which one shell is in a website bucket and
\* in two name buckets, and another shell is in no bucket at all
C12_Witness ==
    /\ Indexed
    /\ \E i \in DOMAIN shell_accounts :
           /\ Cardinality(BucketsHolding(result.hash_buckets.website_buckets,
                                         shell_accounts[i])) = 1
           /\ Cardinality(BucketsHolding(result.hash_buckets.name_buckets,
                                         shell_accounts[i])) = 2
    /\ \E i \in DOMAIN shell_accounts :
           /\ BucketsHolding(result.hash_buckets.website_buckets, shell_accounts[i]) = {}
           /\ BucketsHolding(result.hash_buckets.name_buckets, shell_accounts[i]) = {}

\* the customer's company token and long name tokens
CustomerTokenOf(cust) == website_company_token(dict_get(cust, "Website", Str(<<>>)))

CustomerLongTokens(cust) == LongTokens(dict_get(cust, "Name", Str(<<>>)))

\* the shells of the website bucket keyed by the customer's token
WebsiteShells ==
    IF truthy(CustomerTokenOf(customer))
    THEN Range(bucket_get(result.hash_buckets.website_buckets, CustomerTokenOf(customer).v))
    ELSE {}

\* the shells of the name buckets keyed by the customer's long name tokens
NameShells ==
    UNION {Range(bucket_get(result.hash_buckets.name_buckets, t)) :
               t \in CustomerLongTokens(customer)}

\* C13: the list fast_filter_candidates returns has no two records with the
\* same Id, contains every shell of the customer's website bucket, and holds
\* only records that share the customer's domain token or one of its name
\* tokens longer than 2 characters
C13_LookupDeduplicated ==
    pc = "done" =>
        /\ \A i, j \in DOMAIN result.lookup :
               i # j => result.lookup[i].Id # result.lookup[j].Id
        /\ WebsiteShells \subseteq Range(result.lookup)
        /\ \A i \in DOMAIN result.lookup :
               \/ /\ truthy(CustomerTokenOf(customer))
                  /\ ShellTokenOf(result.lookup[i]) = CustomerTokenOf(customer)
               \/ ShellLongTokens(result.lookup[i]) \cap CustomerLongTokens(customer) # {}

\* a lookup returned a shell that is both in the customer's website bucket and
\* in one of its name buckets, once
C13_Witness ==
    /\ pc = "done"
    /\ \E i \in DOMAIN result.lookup :
           /\ result.lookup[i] \in WebsiteShells
           /\ result.lookup[i] \in NameShells
    /\ Len(result.lookup) >= 2

WebsiteShellIds == {sh.Id : sh \in WebsiteShells}

\* C14: with fewer than 10 distinct website candidates the result is the
\* website bucket's shells together with every shell of a name bucket that
\* matches a customer name token; with 10 or more it is exactly the website
\* bucket's shells
C14_NameBucketsBelowThreshold ==
    pc = "done" =>
        /\ Cardinality(WebsiteShellIds) < NameFilterThreshold =>
               Range(result.lookup) = WebsiteShells \cup NameShells
        /\ Cardinality(WebsiteShellIds) >= NameFilterThreshold =>
               Range(result.lookup) = WebsiteShells

\* both sides of the threshold happened with a name bucket that would add a
\* shell: 10 website candidates and the name-only shell left out
C14_Witness ==
    /\ pc = "done"
    /\ Cardinality(WebsiteShellIds) = NameFilterThreshold
    /\ NameShells \ WebsiteShells # {}
    /\ Range(result.lookup) = WebsiteShells

\* 9 website candidates and the name-only shell added
C14_WitnessBelow ==
    /\ pc = "done"
    /\ Cardinality(WebsiteShellIds) = NameFilterThreshold - 1
    /\ NameShells \ WebsiteShells # {}
    /\ NameShells \subseteq Range(result.lookup)

-----------------------------------------------------------------------------
(* Ranking of the candidates in find_best_shell_match (Spec)               *)

\* the call returned a best match
MatchReturned == pc = "done" /\ result.exc = "" /\ result.success

\* the overall score of the i-th candidate examined
CandidateScore(i) == compute_overall_similarity(customer, result.candidates[i]).overall_score

\* C15: the returned shell scores at least as much as every candidate
\* examined, confidence_score is that maximum, and the returned shell is the
\* earliest candidate that reaches it; the candidates are the lookup, or the
\* whole collection after the fallback
C15_BestIsEarliestMaximum ==
    MatchReturned =>
        /\ result.candidates = IF result.lookup = <<>> THEN shell_accounts ELSE result.lookup
        /\ \A i \in DOMAIN result.candidates :
               RLe(CandidateScore(i), result.best_match.confidence_score)
        /\ \E k \in DOMAIN result.candidates :
               /\ result.candidates[k].Id = result.best_match.shell_id
               /\ REq(CandidateScore(k), result.best_match.confidence_score)
               /\ \A j \in 1..(k - 1) : RLt(CandidateScore(j), CandidateScore(k))

\* three candidates: the first scores less, the second and third tie for the
\* maximum, and the second is returned
C15_Witness ==
    /\ MatchReturned
    /\ Len(result.candidates) = 3
    /\ RLt(CandidateScore(1), CandidateScore(2))
    /\ REq(CandidateScore(2), CandidateScore(3))
    /\ result.best_match.shell_id = result.candidates[2].Id

-----------------------------------------------------------------------------
(* SpecAssessment: get_ai_match_assessment over the answers of the LLM     *)

ConfidenceScores == {NoConf, JStringConf, JNullConf} \cup {JNumber(n) : n \in {-5, 0, 85, 100, 150}}

BulletLists ==
    {NoBullets, JStringBullets, JList(<<>>), JList(<<"same domain">>),
     JList(<<"same domain", "name differs">>)}

JObjects == {JObject(cs, eb) : cs \in ConfidenceScores, eb \in BulletLists}

Contents ==
    {Content(form, JNull) : form \in {"none", "empty", "blank", "prose", "braces"}}
        \cup {Content("json", value) : value \in JObjects \cup {JScalar, JNull}}
        \cup {Content("wrapped", value) : value \in JObjects}

Completions == {Completion(TRUE, NoContent)} \cup {Completion(FALSE, c) : c \in Contents}

InitAssessment ==
    /\ pc = "start"
    /\ completion \in Completions
    /\ request = NoRequest
    /\ str1 = <<>>
    /\ str2 = <<>>
    /\ customer = NoCustomer
    /\ shell = NoShell
    /\ shell_accounts = <<>>
    /\ result = <<>>

GetAiMatchAssessment ==
    /\ pc = "start"
    /\ result' = get_ai_match_assessment(completion)
    /\ pc' = "done"
    /\ UNCHANGED <<str1, str2, customer, shell, shell_accounts, completion, request>>

NextAssessment == GetAiMatchAssessment

SpecAssessment == InitAssessment /\ [][NextAssessment]_vars

\* the answer is a JSON object (alone or inside prose) with both fields
AnswerObject(llm) ==
    /\ ~llm.raises
    /\ llm.content.form \in {"json", "wrapped"}
    /\ llm.content.value.t = "obj"
    /\ llm.content.value.cs.t # "missing"
    /\ llm.content.value.eb.t # "missing"

\* the LLM call raised, answered nothing, answered no valid JSON or left out
\* a required field
LlmFailed(llm) == ~AnswerObject(llm)

ConfidenceInRange(cs) == cs.t = "num" /\ cs.n \in 0..100

\* C20: get_ai_match_assessment returns a success with a confidence score
\* in 0..100 and a list of bullets, or an explicit failure: whenever the LLM
\* call raises, answers nothing, answers invalid JSON or leaves out a
\* required field, the result has success = False, confidence 0 and error
\* bullets, never success = True
C20_SuccessOrExplicitFailure ==
    pc = "done" =>
        /\ result.success =>
               /\ ConfidenceInRange(result.confidence_score)
               /\ result.explanation_bullets.t = "list"
        /\ LlmFailed(completion) =>
               /\ ~result.success
               /\ result.confidence_score = JNumber(0)
               /\ result.explanation_bullets.t = "list"
               /\ result.explanation_bullets.items # <<>>

-----------------------------------------------------------------------------
(* SpecBatch: process_matching_batch, then the export of its response      *)

MaxBatch == 2

\* the Account records Salesforce holds: a null field comes back as None
OrgCustomers ==
    << CustomerRecord(Str(<<"a">>), Str(NameXyz),    Str(SiteXyzPath), AddrUpper),
       CustomerRecord(Str(<<"b">>), Str(NameAbcInc), Str(SiteAbcCom),  AddrLower),
       CustomerRecord(Str(<<"c">>), None,            Str(SiteAbdCo),   AddrEmpty),
       CustomerRecord(Str(<<"d">>), Str(NameAbc),    None,             AddrNull) >>

OrgShells ==
    << ShellRecord(ShellId(1), Str(NameAbcInc), Str(SiteAbcCom), AddrUpper),
       ShellRecord(ShellId(2), Str(NameXyz),    Str(SiteAbdCo),  AddrLower) >>

\* identifiers a request may carry: "x" and "y" are the Id of no record
CustomerIdPool == {<<"a">>, <<"b">>, <<"c">>, <<"d">>, <<"x">>}

InvalidIdLists == {<<>>, << <<"x">> >>, << <<"y">> >>, << <<"a">> >>}

ShellIdLists == {<< ShellId(1).v, ShellId(2).v >>, << <<"9">> >>}

Requests ==
    { [customer_account_ids |-> ids, shell_account_ids |-> sids, invalid_customer_ids |-> inv] :
          ids \in UNION {[1..n -> CustomerIdPool] : n \in 0..MaxBatch},
          sids \in ShellIdLists, inv \in InvalidIdLists }

\* what the LLM client may do in one call
BatchCompletions ==
    { Completion(TRUE, NoContent),
      Completion(FALSE, Content("prose", JNull)),
      Completion(FALSE, Content("json", JObject(JNumber(85), JList(<<"same domain">>)))),
      Completion(FALSE, Content("json", JObject(JStringConf, JList(<<"same domain">>)))) }

NoExport == [success |-> FALSE, rows |-> <<>>]

\* the local variables of the handler, its response (status, code), the
\* export, the calls made so far to the engine and to the assessment, and
\* the number of executions of create_hash_buckets so far
NoBatch ==
    [status |-> "", code |-> 0, customer_data |-> <<>>,
     clean_customers |-> <<>>, flagged_customers |-> <<>>,
     matched_pairs |-> <<>>, unmatched_customers |-> <<>>, invalid_customers |-> <<>>,
     engine_calls |-> <<>>, ai_calls |-> <<>>, index_builds |-> 0, export |-> NoExport]

InitBatch ==
    /\ pc = "start"
    /\ request \in Requests
    /\ completion = NoCompletion
    /\ str1 = <<>>
    /\ str2 = <<>>
    /\ customer = NoCustomer
    /\ shell = NoShell
    /\ shell_accounts = <<>>
    /\ result = NoBatch

ErrorResponse(code) == [result EXCEPT !.status = "error", !.code = code]

\* lines 403-441: the validation of the body and the two bulk retrievals
Retrieve ==
    /\ pc = "start"
    /\ \E customers_up, shells_up \in BOOLEAN :
          LET customer_data == get_accounts_bulk(OrgCustomers, request.customer_account_ids,
                                                 customers_up)
              shell_data == get_accounts_bulk(OrgShells, request.shell_account_ids, shells_up)
          IN  IF Len(request.customer_account_ids) = 0 \/ Len(request.shell_account_ids) = 0
              THEN /\ result' = ErrorResponse(400)
                   /\ pc' = "done"
                   /\ UNCHANGED shell_accounts
              ELSE IF customer_data.none \/ shell_data.none
              THEN /\ result' = ErrorResponse(500)
                   /\ pc' = "done"
                   /\ UNCHANGED shell_accounts
              ELSE /\ result' = [result EXCEPT !.customer_data = customer_data.data]
                   /\ shell_accounts' = shell_data.data
                   /\ pc' = "retrieved"
    /\ UNCHANGED <<str1, str2, customer, shell, completion, request>>

\* line 444
FilterBadDomains ==
    /\ pc = "retrieved"
    /\ \E bad \in SUBSET SeqIds(result.customer_data) :
          LET parts == filter_customer_accounts_by_bad_domains(result.customer_data, bad)
          IN  result' = [result EXCEPT !.clean_customers = parts.clean,
                                       !.flagged_customers = parts.flagged]
    /\ pc' = "matching"
    /\ UNCHANGED <<str1, str2, customer, shell, shell_accounts, completion, request>>

\* the customer the loop is at: the first one not yet in a list
NextCustomer == Len(result.engine_calls) + 1

\* lines 454-490: one pass of the loop; an exception of the engine ends the
\* handler in the except clause of lines 516-520
MatchCustomer ==
    /\ pc = "matching"
    /\ NextCustomer <= Len(result.clean_customers)
    /\ \E llm \in BatchCompletions :
          LET cust == result.clean_customers[NextCustomer]
              pass == loop_body(cust, shell_accounts, llm,
                                result.matched_pairs, result.unmatched_customers)
              called == [result EXCEPT
                            !.engine_calls = Append(@, cust),
                            !.index_builds = @ + hash_bucket_builds(shell_accounts),
                            !.ai_calls = IF pass.ai_called
                                         THEN Append(@, [customer |-> cust, llm |-> llm])
                                         ELSE @]
          IN  /\ customer' = cust
              /\ completion' = IF pass.ai_called THEN llm ELSE completion
              /\ IF pass.exc # ""
                 THEN /\ result' = [called EXCEPT !.status = "error", !.code = 500]
                      /\ pc' = "done"
                 ELSE /\ result' = [called EXCEPT
                                        !.matched_pairs = pass.matched_pairs,
                                        !.unmatched_customers = pass.unmatched_customers]
                      /\ pc' = "matching"
    /\ UNCHANGED <<str1, str2, shell, shell_accounts, request>>

\* lines 494-514
Respond ==
    /\ pc = "matching"
    /\ NextCustomer > Len(result.clean_customers)
    /\ result' = [result EXCEPT !.status = "success", !.code = 200,
                                !.invalid_customers = request.invalid_customer_ids]
    /\ pc' = "responded"
    /\ UNCHANGED <<str1, str2, customer, shell, shell_accounts, completion, request>>

\* export_matching_results on the data of the response
ExportMatchingResults ==
    /\ pc = "responded"
    /\ result' = [result EXCEPT !.export =
                      create_matching_results_export(result.matched_pairs,
                                                     result.unmatched_customers,
                                                     result.flagged_customers,
                                                     result.invalid_customers)]
    /\ pc' = "exported"
    /\ UNCHANGED <<str1, str2, customer, shell, shell_accounts, completion, request>>

NextBatch ==
    \/ Retrieve
    \/ FilterBadDomains
    \/ MatchCustomer
    \/ Respond
    \/ ExportMatchingResults

SpecBatch == InitBatch /\ [][NextBatch]_vars

\* the run answered with status "success" and its response was exported
BatchExported == pc = "exported"

InputIds == Range(request.customer_account_ids) \cup Range(request.invalid_customer_ids)

\* how many entries of the four lists of the response carry the identifier
Appearances(id) ==
    Cardinality({i \in DOMAIN result.matched_pairs :
                     result.matched_pairs[i].customer_account.Id = Str(id)})
    + Cardinality({i \in DOMAIN result.unmatched_customers :
                       result.unmatched_customers[i].customer_account.Id = Str(id)})
    + Cardinality({i \in DOMAIN result.flagged_customers :
                       result.flagged_customers[i].Id = Str(id)})
    + Cardinality({i \in DOMAIN result.invalid_customers : result.invalid_customers[i] = id})

RowsOf(id) == {i \in DOMAIN result.export.rows : result.export.rows[i].customer.Id = Str(id)}

\* C16: after a successful run every customer identifier of the request
\* (customer_account_ids and invalid_customer_ids) is in exactly one of
\* matched_pairs, unmatched_customers, flagged_customers, invalid_customers,
\* and the export has exactly one row for it
C16_EveryCustomerOnce ==
    BatchExported =>
        \A id \in InputIds :
            /\ Appearances(id) = 1
            /\ Cardinality(RowsOf(id)) = 1

EngineCallIds == {result.engine_calls[i].Id : i \in DOMAIN result.engine_calls}

AiCallIds == {result.ai_calls[i].customer.Id : i \in DOMAIN result.ai_calls}

FlaggedIds == SeqIds(result.flagged_customers)

\* every retrieved customer is in exactly one of clean_customers and
\* flagged_customers
BatchPartitioned ==
    /\ Len(result.clean_customers) + Len(result.flagged_customers) = Len(result.customer_data)
    /\ \A i \in DOMAIN result.customer_data :
           (result.customer_data[i].Id \in SeqIds(result.clean_customers))
               # (result.customer_data[i].Id \in FlaggedIds)

FlaggedRows ==
    {i \in DOMAIN result.export.rows : result.export.rows[i].status = "FLAGGED"}

\* C17: no call of the engine or of the AI assessment is made before the
\* bad-domain filter has partitioned the whole retrieved batch, no flagged
\* customer is ever passed to either, and the export gives the flagged
\* customers their rows without a further call
C17_FlaggedNeverReachEngine ==
    /\ pc \in {"start", "retrieved"} => result.engine_calls = <<>> /\ result.ai_calls = <<>>
    /\ result.engine_calls # <<>> => BatchPartitioned
    /\ EngineCallIds \cap FlaggedIds = {}
    /\ AiCallIds \cap FlaggedIds = {}
    /\ AiCallIds \subseteq EngineCallIds
    /\ Len(result.engine_calls) <= Len(result.clean_customers)
    /\ pc = "exported" /\ result.export.success =>
           {result.export.rows[i].customer.Id : i \in FlaggedRows} = FlaggedIds

C17_Witness ==
    /\ pc = "exported"
    /\ result.export.success
    /\ result.flagged_customers # <<>>
    /\ result.ai_calls # <<>>
    /\ FlaggedRows # {}

\* the Name a row shows, '' when the customer has none
RowName(row) == IF row.customer.Name.k = "str" THEN row.customer.Name.v ELSE <<>>

ExportedCustomers ==
    Len(result.matched_pairs) + Len(result.unmatched_customers)
        + Len(result.flagged_customers) + Len(result.invalid_customers)

\* C18: the export writes one row for each customer of the four lists, all
\* together in non-decreasing order of the customer's Name, whatever the mix
\* of statuses and also when a customer has no Name
C18_RowsSortedByName ==
    pc = "exported" =>
        /\ result.export.success
        /\ Len(result.export.rows) = ExportedCustomers
        /\ \A i, j \in DOMAIN result.export.rows :
               i < j => ~str_lt(RowName(result.export.rows[j]), RowName(result.export.rows[i]))

\* matched_pairs holds the customer with the scores the engine computes
PairKept(cust) ==
    LET match_result == find_best_shell_match(cust, shell_accounts) IN
    \E i \in DOMAIN result.matched_pairs :
        /\ result.matched_pairs[i].customer_account = cust
        /\ result.matched_pairs[i].recommended_shell = match_result.best_match.shell_account
        /\ result.matched_pairs[i].match_confidence = match_result.best_match.confidence_score
        /\ result.matched_pairs[i].website_match = match_result.best_match.website_match
        /\ result.matched_pairs[i].name_match = match_result.best_match.name_match
        /\ result.matched_pairs[i].address_consistency
               = match_result.best_match.address_consistency

\* the handler ended in its except clause
BatchFailed == pc = "done" /\ result.status = "error"

\* C19: when the AI call for a matched customer fails in any way, the
\* customer is in matched_pairs with the confidence and the signal scores of
\* the engine, and the loop goes on: a run ends in an error only when a
\* retrieval failed or the engine itself raised, and a run that answers has
\* scored every clean customer
C19_AiFailureLeavesScoring ==
    /\ \A k \in DOMAIN result.ai_calls :
           LlmFailed(result.ai_calls[k].llm) => PairKept(result.ai_calls[k].customer)
    /\ BatchFailed /\ result.engine_calls # <<>> =>
           find_best_shell_match(result.engine_calls[Len(result.engine_calls)],
                                 shell_accounts).exc # ""
    /\ pc \in {"responded", "exported"} =>
           /\ result.engine_calls = result.clean_customers
           /\ Len(result.matched_pairs) + Len(result.unmatched_customers)
                  = Len(result.clean_customers)

C19_Witness ==
    /\ pc = "responded"
    /\ Len(result.ai_calls) = MaxBatch
    /\ result.ai_calls[1].llm.raises
    /\ LlmFailed(result.ai_calls[1].llm)
    /\ Len(result.matched_pairs) = MaxBatch


-----------------------------------------------------------------------------
(* SpecSuffix: normalize_company_name on names ending in suffix tokens     *)

SuffixStems == {<<"a","c","m","e">>, <<"A","b">>}

SuffixSeparators == {<<" ">>, <<".">>, <<",">>, <<"-">>, <<"/">>, <<>>}

\* inc, corp, co, group, and a word that is no suffix
SuffixWords ==
    {business_suffixes[1], business_suffixes[3], business_suffixes[10],
     business_suffixes[11], <<"x">>}

NameTails == {<<>>} \cup {sep \o word : sep \in SuffixSeparators, word \in SuffixWords}

SuffixedNames == {stem \o t1 \o t2 : stem \in SuffixStems, t1 \in NameTails, t2 \in NameTails}

InitSuffix ==
    /\ pc = "start"
    /\ completion = NoCompletion
    /\ request = NoRequest
    /\ str1 \in SuffixedNames
    /\ str2 = <<>>
    /\ customer = NoCustomer
    /\ shell = NoShell
    /\ shell_accounts = <<>>
    /\ result = <<>>

\* normalize_company_name(str1), with the value of `normalized` after the
\* loop over business_suffixes
NormalizeSuffixedName ==
    /\ pc = "start"
    /\ result' = [stripped   |-> strip_business_suffixes(lower(str1), 1),
                  normalized |-> normalize_company_name(str1)]
    /\ pc' = "done"
    /\ UNCHANGED <<str1, str2, customer, shell, shell_accounts, completion, request>>

NextSuffix == NormalizeSuffixedName

SpecSuffix == InitSuffix /\ [][NextSuffix]_vars

\* s without its last n characters
CutTail(s, n) == SubSeq(s, 1, Len(s) - n)

AllPatterns == {suffix_patterns[i][j] : i \in DOMAIN suffix_patterns, j \in 1..4}

\* the patterns (separator and suffix) the lowercased name ends with
TrailingPatterns(name) == {p \in AllPatterns : endswith(lower(name), p)}

\* C28: the suffix stripping of normalize_company_name removes at most one
\* trailing suffix token per call, and only a suffix that is the trailing
\* token behind a space, period, comma or hyphen: the name is left as it is
\* or loses exactly one pattern it ends with
C28_AtMostOneSuffixStripped ==
    pc = "done" =>
        \/ result.stripped = lower(str1)
        \/ \E p \in TrailingPatterns(str1) : result.stripped = CutTail(lower(str1), Len(p))


-----------------------------------------------------------------------------
(* Counts of a successful result (under Spec)                              *)

LookupIds == SeqIds(result.lookup)

\* C29: in a successful result total_shells is the size of the collection,
\* candidate_count is the number of candidates scored and lies in
\* 1..total_shells, the returned shell is one of the scored candidates, and
\* when the lookup is not empty it is a shell of the lookup
C29_CountsAndBestAmongScored ==
    MatchReturned =>
        /\ result.total_shells = Len(shell_accounts)
        /\ result.candidate_count = Len(result.ranked)
        /\ result.candidate_count = Len(result.candidates)
        /\ 1 <= result.candidate_count
        /\ result.candidate_count <= result.total_shells
        /\ result.best_match.shell_id \in ScoredIds
        /\ result.best_match.shell_id \in SeqIds(result.candidates)
        /\ result.lookup # <<>> => result.best_match.shell_id \in LookupIds

C29_Witness ==
    /\ MatchReturned
    /\ result.lookup # <<>>
    /\ Len(result.lookup) < Len(shell_accounts)
    /\ result.candidate_count = Len(result.lookup)


-----------------------------------------------------------------------------
(* Order of the lookup result (under SpecIndex)                            *)

\* C27: in the list fast_filter_candidates returns every shell of the
\* customer's website bucket precedes every shell matched through a name
\* bucket only
C27_WebsiteMatchesFirst ==
    pc = "done" =>
        \A i, j \in DOMAIN result.lookup :
            (result.lookup[i] \notin WebsiteShells /\ result.lookup[j] \in WebsiteShells)
                => j < i


-----------------------------------------------------------------------------
(* SpecRepeat: find_best_shell_match called again on the same inputs,      *)
(* with or without a call on other inputs in between                       *)

MaxRepeatShells == 2

RepeatCollections ==
    UNION { { [i \in 1..n |-> ShellRecord(ShellId(i), t[i][1], t[i][2], t[i][3])] :
                  t \in [1..n -> ShellTemplates] } : n \in 0..MaxRepeatShells }

\* the inputs of the call in between
OtherCalls ==
    { [customer |-> CustomerRecord(CustomerId, Str(NameXyz), Str(SiteAbdCo), AddrLower),
       shell_accounts |-> << ShellRecord(ShellId(1), Str(NameXyz), Str(SiteAbdCo), AddrLower),
                             ShellRecord(ShellId(2), Str(NameAbcInc), Str(SiteAbcCom), AddrUpper) >>],
      [customer |-> CustomerRecord(CustomerId, Str(NameAbc), Missing, AddrMissing),
       shell_accounts |-> << ShellRecord(ShellId(3), Str(NameAbc), Missing, AddrMissing) >>] }

InitRepeat ==
    /\ pc = "start"
    /\ completion = NoCompletion
    /\ request = NoRequest
    /\ str1 = <<>>
    /\ str2 = <<>>
    /\ customer \in Customers
    /\ shell = NoShell
    /\ shell_accounts \in RepeatCollections
    /\ result = [service |-> FuzzyMatchingService,
                 given_customer |-> customer, given_shells |-> shell_accounts,
                 calls |-> 0, first |-> <<>>, second |-> <<>>]

CallFirst ==
    /\ pc = "start"
    /\ LET call == find_best_shell_match_call(result.service, customer, shell_accounts)
       IN  /\ result' = [result EXCEPT !.service = call.self, !.calls = @ + 1,
                                       !.first = call.returned]
           /\ customer' = call.customer
           /\ shell_accounts' = call.shell_accounts
    /\ pc' = "first"
    /\ UNCHANGED <<str1, str2, shell, completion, request>>

CallOther ==
    /\ pc = "first"
    /\ \E other \in OtherCalls :
          LET call == find_best_shell_match_call(result.service, other.customer,
                                                 other.shell_accounts)
          IN  result' = [result EXCEPT !.service = call.self, !.calls = @ + 1]
    /\ pc' = "between"
    /\ UNCHANGED <<str1, str2, customer, shell, shell_accounts, completion, request>>

CallAgain ==
    /\ pc \in {"first", "between"}
    /\ LET call == find_best_shell_match_call(result.service, customer, shell_accounts)
       IN  /\ result' = [result EXCEPT !.service = call.self, !.calls = @ + 1,
                                       !.second = call.returned]
           /\ customer' = call.customer
           /\ shell_accounts' = call.shell_accounts
    /\ pc' = "again"
    /\ UNCHANGED <<str1, str2, shell, completion, request>>

NextRepeat == CallFirst \/ CallOther \/ CallAgain

SpecRepeat == InitRepeat /\ [][NextRepeat]_vars

C26_IndexBuiltOnce ==
    (/\ pc \in {"responded", "exported"}
     /\ Len(result.clean_customers) >= 1
     /\ shell_accounts # <<>>) =>
        result.index_builds = 1


-----------------------------------------------------------------------------
(* Salesforce identifiers: services/salesforce_service.py                   *)

Pow2(j) == IF j = 0 THEN 1 ELSE IF j = 1 THEN 2 ELSE IF j = 2 THEN 4
           ELSE IF j = 3 THEN 8 ELSE 16

\* the sum of 2 ** j over the upper-case characters of the chunk, j from 0
RECURSIVE chunk_value_from(_, _)
chunk_value_from(chunk, j) ==
    IF j >= Len(chunk) THEN 0
    ELSE (IF chunk[j + 1] \in UpperSet THEN Pow2(j) ELSE 0) + chunk_value_from(chunk, j + 1)

\* chr(ord('A') + chunk_value) below 26, str(chunk_value - 26) from 26 on
base32_char(chunk_value) ==
    IF chunk_value < 26 THEN UpperChars[chunk_value + 1]
    ELSE DigitChars[chunk_value - 26 + 1]

_convert_15_to_18_char_id(id_15) ==
    IF Len(id_15) # 15 THEN id_15
    ELSE id_15 \o [i \in 1..3 |->
                      base32_char(chunk_value_from(SubSeq(id_15, (i - 1) * 5 + 1, i * 5), 0))]

_convert_18_to_15_char_id(id_18) ==
    IF Len(id_18) = 15 THEN id_18
    ELSE IF Len(id_18) = 18 THEN SubSeq(id_18, 1, 15)
    ELSE id_18

\* variant of _are_same_account_id that compares the two stripped strings
\* without converting them
are_same_without_conversion(id1, id2) ==
    IF id1 = <<>> \/ id2 = <<>> THEN FALSE
    ELSE strip(id1) = strip(id2)

_are_same_account_id(id1, id2) ==
    IF id1 = <<>> \/ id2 = <<>> THEN FALSE
    ELSE _convert_18_to_15_char_id(strip(id1)) = _convert_18_to_15_char_id(strip(id2))

-----------------------------------------------------------------------------
(* SpecIds: the conversions on 15-character identifiers, and the comparison *)
(* with a second identifier                                                 *)

\* five-character pieces an identifier is made of
IdChunks ==
    { <<"0","0","1","a","B">>, <<"A","A","A","A","A">>, <<"a","b","c","d","e">>,
      <<"Z","z","Z","z","9">>, <<"0","A","1","b","2">> }

Ids15 == {c1 \o c2 \o c3 : c1, c2, c3 \in IdChunks}

SampleId15 == <<"0","0","1","a","B">> \o <<"a","b","c","d","e">> \o <<"A","A","A","A","A">>

\* second identifiers: the sample in its 15- and 18-character forms, with
\* another suffix, and two other accounts
OtherIds ==
    { SampleId15,
      _convert_15_to_18_char_id(SampleId15),
      SampleId15 \o <<"A","A","A">>,
      <<"0","0","1","a","b">> \o <<"a","b","c","d","e">> \o <<"A","A","A","A","A">>,
      _convert_15_to_18_char_id(<<"0","0","1","a","B">> \o <<"A","A","A","A","A">>
                                    \o <<"0","A","1","b","2">>) }

InitIds ==
    /\ pc = "start"
    /\ completion = NoCompletion
    /\ request = NoRequest
    /\ str1 \in Ids15
    /\ str2 \in OtherIds
    /\ customer = NoCustomer
    /\ shell = NoShell
    /\ shell_accounts = <<>>
    /\ result = <<>>

ConvertAndCompare ==
    /\ pc = "start"
    /\ result' = [id_18    |-> _convert_15_to_18_char_id(str1),
                  back     |-> _convert_18_to_15_char_id(_convert_15_to_18_char_id(str1)),
                  same_own |-> _are_same_account_id(str1, _convert_15_to_18_char_id(str1)),
                  same_12  |-> _are_same_account_id(str1, str2),
                  same_21  |-> _are_same_account_id(str2, str1),
                  same_18  |-> _are_same_account_id(_convert_15_to_18_char_id(str1), str2)]
    /\ pc' = "done"
    /\ UNCHANGED <<str1, str2, customer, shell, shell_accounts, completion, request>>

NextIds == ConvertAndCompare

SpecIds == InitIds /\ [][NextIds]_vars

First15(id) == SubSeq(id, 1, 15)

\* C24: converting a 15-character id to 18 characters and back returns it,
\* the id and its 18-character form are the same account, and
\* _are_same_account_id is symmetric and true for two ids of 15 or 18
\* characters exactly when their first 15 characters are equal
C24_IdFormsInterchangeable ==
    pc = "done" =>
        /\ Len(result.id_18) = 18
        /\ result.back = str1
        /\ result.same_own
        /\ result.same_12 = result.same_21
        /\ result.same_12 = (First15(str1) = First15(str2))
        /\ result.same_18 = (First15(str1) = First15(str2))

C24_Witness ==
    /\ pc = "done"
    /\ Len(str2) = 18
    /\ result.same_12
    /\ str2 # result.id_18
    /\ result.id_18[18] \in Range(DigitChars)


-----------------------------------------------------------------------------
(* Identifier validation: validate_customer_account_ids and                 *)
(* validate_shell_account_ids                                               *)

_is_valid_salesforce_id_format(account_id) ==
    LET stripped == strip(account_id) IN
    /\ account_id # <<>>
    /\ Len(stripped) \in {15, 18}
    /\ \A i \in DOMAIN stripped : IsAlnum(stripped[i])
    /\ startswith(stripped, <<"0","0","1">>)

\* the query id of an original id: its 18-character form
query_id_of(original_id) ==
    IF Len(original_id) = 15 THEN _convert_15_to_18_char_id(original_id) ELSE original_id

\* id_mapping[query_id]: a dict keeps the value assigned last to a key
id_mapping_get(format_valid_ids, query_id) ==
    LET positions == {i \in DOMAIN format_valid_ids :
                          query_id_of(format_valid_ids[i]) = query_id}
    IN  format_valid_ids[CHOOSE i \in positions : \A j \in positions : j <= i]

\* the dict the validation returns; an empty request gets the two lists
\* only (has_counts = FALSE), a failed connection gets None
ValidationResult(none, valid_account_ids, invalid_account_ids, has_counts, total_requested, zi_data_stats) ==
    [none |-> none,
     valid_account_ids |-> valid_account_ids, invalid_account_ids |-> invalid_account_ids,
     has_counts |-> has_counts, total_requested |-> total_requested,
     valid_count |-> Len(valid_account_ids), invalid_count |-> Len(invalid_account_ids),
     zi_data_stats |-> zi_data_stats]

NoZiStats ==
    [accounts_with_zi_name |-> 0, accounts_with_zi_website |-> 0,
     accounts_with_complete_zi_data |-> 0]

\* the counts over the records the query returned (shell validation only)
zi_data_stats_of(records) ==
    [accounts_with_zi_name |->
         Cardinality({i \in DOMAIN records : truthy(records[i].ZI_Company_Name__c)}),
     accounts_with_zi_website |->
         Cardinality({i \in DOMAIN records : truthy(records[i].ZI_Website__c)}),
     accounts_with_complete_zi_data |->
         Cardinality({i \in DOMAIN records : truthy(records[i].ZI_Company_Name__c)
                                             /\ truthy(records[i].ZI_Website__c)})]

\* accounts: the Account records Salesforce holds, each with its 18-character
\* Id; with_stats: the shell validation
validate_account_ids(accounts, account_ids, connected, with_stats) ==
    IF ~connected THEN ValidationResult(TRUE, <<>>, <<>>, FALSE, 0, NoZiStats)
    ELSE IF account_ids = <<>> THEN ValidationResult(FALSE, <<>>, <<>>, FALSE, 0, NoZiStats)
    ELSE LET stripped == [i \in DOMAIN account_ids |-> strip(account_ids[i])]
             format_valid_ids == SelectSeq(stripped, _is_valid_salesforce_id_format)
             format_invalid_ids ==
                 SelectSeq(stripped, LAMBDA id : ~_is_valid_salesforce_id_format(id))
             query_account_ids ==
                 [i \in DOMAIN format_valid_ids |-> query_id_of(format_valid_ids[i])]
             records == SelectSeq(accounts,
                                  LAMBDA rec : \E i \in DOMAIN query_account_ids :
                                                   rec.Id = Str(query_account_ids[i]))
             found_ids == {records[i].Id.v : i \in DOMAIN records}
             found == SelectSeq(query_account_ids, LAMBDA q : q \in found_ids)
             missing == SelectSeq(query_account_ids, LAMBDA q : q \notin found_ids)
             valid_account_ids ==
                 [i \in DOMAIN found |-> id_mapping_get(format_valid_ids, found[i])]
             salesforce_invalid_ids ==
                 [i \in DOMAIN missing |-> id_mapping_get(format_valid_ids, missing[i])]
         IN  ValidationResult(FALSE, valid_account_ids,
                              format_invalid_ids \o salesforce_invalid_ids,
                              TRUE, Len(account_ids),
                              IF with_stats THEN zi_data_stats_of(records) ELSE NoZiStats)

-----------------------------------------------------------------------------
(* SpecValidate: the two validations over lists of identifiers              *)

MaxValidateIds == 3

IdA15 == SampleId15

IdB15 == <<"0","0","1","a","B">> \o <<"A","A","A","A","A">> \o <<"0","A","1","b","2">>

\* well-formed, but the Id of no account
IdN15 == <<"0","0","1","a","B">> \o <<"a","b","c","d","e">> \o <<"a","b","c","d","e">>

\* the accounts Salesforce holds
ValidateOrg ==
    << ShellRecord(Str(_convert_15_to_18_char_id(IdA15)), Str(NameAbcInc), Str(SiteAbcCom), AddrNull),
       ShellRecord(Str(_convert_15_to_18_char_id(IdB15)), Str(NameXyz), None, AddrNull) >>

ValidateIdPool ==
    { IdA15, _convert_15_to_18_char_id(IdA15), IdB15, <<" ">> \o IdB15 \o <<" ">>,
      IdN15, <<"b","a","d">> }

InitValidate ==
    /\ pc = "start"
    /\ completion = NoCompletion
    /\ \E ids \in UNION {[1..n -> ValidateIdPool] : n \in 0..MaxValidateIds} :
          request = [customer_account_ids |-> ids, shell_account_ids |-> ids,
                     invalid_customer_ids |-> <<>>]
    /\ str1 = <<>>
    /\ str2 = <<>>
    /\ customer = NoCustomer
    /\ shell = NoShell
    /\ shell_accounts = <<>>
    /\ result = <<>>

ValidateCustomerAccountIds ==
    /\ pc = "start"
    /\ \E connected \in BOOLEAN :
          result' = [connected |-> connected, ids |-> request.customer_account_ids,
                     validation |-> validate_account_ids(ValidateOrg,
                                        request.customer_account_ids, connected, FALSE)]
    /\ pc' = "done"
    /\ UNCHANGED <<str1, str2, customer, shell, shell_accounts, completion, request>>

ValidateShellAccountIds ==
    /\ pc = "start"
    /\ \E connected \in BOOLEAN :
          result' = [connected |-> connected, ids |-> request.shell_account_ids,
                     validation |-> validate_account_ids(ValidateOrg,
                                        request.shell_account_ids, connected, TRUE)]
    /\ pc' = "done"
    /\ UNCHANGED <<str1, str2, customer, shell, shell_accounts, completion, request>>

NextValidate == ValidateCustomerAccountIds \/ ValidateShellAccountIds

SpecValidate == InitValidate /\ [][NextValidate]_vars

\* C23: with a connection the validation returns a result, in which every
\* trimmed input identifier is, as it was given, in exactly one of
\* valid_account_ids and invalid_account_ids, and valid_count +
\* invalid_count = total_requested, also when an account is given twice or
\* in both its forms
C23_ValidationPartitionsInput ==
    (pc = "done" /\ result.connected) =>
        /\ ~result.validation.none
        /\ \A i \in DOMAIN result.ids :
               (strip(result.ids[i]) \in Range(result.validation.valid_account_ids))
                   # (strip(result.ids[i]) \in Range(result.validation.invalid_account_ids))
        /\ result.ids # <<>> =>
               /\ result.validation.has_counts
               /\ result.validation.valid_count + result.validation.invalid_count
                      = result.validation.total_requested
               /\ result.validation.total_requested = Len(result.ids)


-----------------------------------------------------------------------------
(* The Salesforce session: SalesforceService.connect and ensure_connection  *)

ConnectionTimeout == 3600

\* SalesforceService.__init__; sf is "None" or "session"
SalesforceService ==
    [sf |-> "None", _is_connected |-> FALSE, _last_connection_time |-> 0,
     _connection_timeout |-> ConnectionTimeout]

\* what connect and ensure_connection give back: the service afterwards, the
\* value returned, whether a login was attempted and the clock afterwards
ConnectOutcome(self, returned, attempted, clock) ==
    [self |-> self, returned |-> returned, attempted |-> attempted, clock |-> clock]

\* login_ok: Config.validate_salesforce_config and Salesforce(...) succeed;
\* login_time: the seconds they take
connect(self, current_time, login_ok, login_time) ==
    IF login_ok
    THEN ConnectOutcome([self EXCEPT !.sf = "session", !._is_connected = TRUE,
                                     !._last_connection_time = current_time + login_time],
                        TRUE, TRUE, current_time + login_time)
    ELSE ConnectOutcome([self EXCEPT !._is_connected = FALSE],
                        FALSE, TRUE, current_time + login_time)

\* variant: a session in use stays alive (sliding expiry)
ensure_connection_extending(self, current_time, login_ok, login_time) ==
    IF /\ self._is_connected
       /\ self.sf # "None"
       /\ current_time - self._last_connection_time < self._connection_timeout
    THEN ConnectOutcome([self EXCEPT !._last_connection_time = current_time],
                        TRUE, FALSE, current_time)
    ELSE connect(self, current_time, login_ok, login_time)

ensure_connection(self, current_time, login_ok, login_time) ==
    IF /\ self._is_connected
       /\ self.sf # "None"
       /\ current_time - self._last_connection_time < self._connection_timeout
    THEN ConnectOutcome(self, TRUE, FALSE, current_time)
    ELSE connect(self, current_time, login_ok, login_time)

DataOperations ==
    {"get_customer_accounts_bulk", "get_shell_accounts_bulk",
     "validate_customer_account_ids", "validate_shell_account_ids"}

Operations == DataOperations \cup {"test_connection"}

Returned(value, message) == [value |-> value, message |-> message]

\* what an operation returns when ensure_connection returned False
connection_failure(op) ==
    IF op = "test_connection" THEN Returned("False", "Failed to establish connection")
    ELSE Returned("None", "Failed to connect to Salesforce")

\* what an operation returns for an empty list of identifiers, before any query
empty_return(op) ==
    IF op \in {"get_customer_accounts_bulk", "get_shell_accounts_bulk"}
    THEN Returned("[]", "No account IDs provided")
    ELSE Returned("empty lists", "No account IDs to validate")

\* whether the operation, connected, sends a query for identifiers of this
\* kind ("empty", "malformed" or "wellformed")
issues_query(op, ids) ==
    CASE op = "test_connection" -> TRUE
      [] op \in {"get_customer_accounts_bulk", "get_shell_accounts_bulk"} -> ids # "empty"
      [] OTHER -> ids = "wellformed"

\* what the operation returns once connected
connected_return(op, ids, query_ok) ==
    IF op # "test_connection" /\ ids = "empty" THEN empty_return(op)
    ELSE IF issues_query(op, ids) /\ ~query_ok
         THEN IF op = "test_connection" THEN Returned("False", "Connection failed")
              ELSE Returned("None", "Error")
         ELSE IF op = "test_connection" THEN Returned("True", "Connection successful")
              ELSE Returned("data", "Success")

\* one operation of the service, from its call to its return
OperationRecord(op, ensured, attempted, queried, returned) ==
    [op |-> op, ensured |-> ensured, attempted |-> attempted, queried |-> queried,
     returned |-> returned]

NoOperation == OperationRecord("none", FALSE, FALSE, FALSE, Returned("none", "none"))

operation(self, op, ids, current_time, login_ok, login_time, query_ok) ==
    LET e == ensure_connection(self, current_time, login_ok, login_time) IN
    [self |-> e.self, clock |-> e.clock,
     last |-> IF ~e.returned
              THEN OperationRecord(op, FALSE, e.attempted, FALSE, connection_failure(op))
              ELSE OperationRecord(op, TRUE, e.attempted, issues_query(op, ids),
                                   connected_return(op, ids, query_ok))]

-----------------------------------------------------------------------------
(* SpecSession: operations of one SalesforceService as time passes          *)

MaxClock == 3601

MaxOperations == 4

ClockSteps == {0, 1799, 1800}

LoginTimes == {0, 1}

IdKinds == {"empty", "malformed", "wellformed"}

\* last_connect: the outcome and the time of the most recent connect;
\* operations: the number of operations so far
InitSession ==
    /\ pc = "idle"
    /\ result = [self |-> SalesforceService, now |-> 0, operations |-> 0,
                 last_connect |-> [any |-> FALSE, ok |-> FALSE, at |-> 0],
                 last |-> NoOperation]
    /\ completion = NoCompletion
    /\ request = NoRequest
    /\ str1 = <<>>
    /\ str2 = <<>>
    /\ customer = NoCustomer
    /\ shell = NoShell
    /\ shell_accounts = <<>>

ServiceOperation ==
    /\ pc = "idle"
    /\ result.operations < MaxOperations
    /\ \E op \in Operations, ids \in IdKinds, login_ok \in BOOLEAN,
          login_time \in LoginTimes, query_ok \in BOOLEAN :
          LET o == operation(result.self, op, ids, result.now, login_ok, login_time, query_ok) IN
          /\ o.clock <= MaxClock
          /\ result' = [self |-> o.self, now |-> o.clock,
                        operations |-> result.operations + 1,
                        last_connect |->
                            IF o.last.attempted
                            THEN [any |-> TRUE, ok |-> o.last.ensured, at |-> o.clock]
                            ELSE result.last_connect,
                        last |-> o.last]
    /\ pc' = "returned"
    /\ UNCHANGED <<str1, str2, customer, shell, shell_accounts, completion, request>>

TimePasses ==
    /\ pc = "returned"
    /\ \E d \in ClockSteps :
          /\ result.now + d <= MaxClock
          /\ result' = [result EXCEPT !.now = result.now + d]
    /\ pc' = "idle"
    /\ UNCHANGED <<str1, str2, customer, shell, shell_accounts, completion, request>>

NextSession == ServiceOperation \/ TimePasses

SpecSession == InitSession /\ [][NextSession]_vars

\* a session exists, the last connect succeeded and fewer than 3600 seconds
\* have passed since it
SessionFresh ==
    /\ result.self.sf # "None"
    /\ result.last_connect.any
    /\ result.last_connect.ok
    /\ result.now - result.last_connect.at < 3600

\* the parts of the claim that do not depend on the operation: reuse exactly
\* when the session is fresh, else a connect; a query only after
\* ensure_connection returned True; a failed connect leaves the service not
\* connected
SessionStep ==
    /\ result'.last.attempted <=> ~SessionFresh
    /\ result'.last.queried => result'.last.ensured
    /\ ~result'.last.ensured => ~result'.self._is_connected
    /\ ~result'.last.ensured => ~result'.last.queried

\* C30 as stated: in every operation, ensure_connection reuses the session
\* exactly when a session exists, the last connect succeeded and fewer than
\* 3600 seconds have passed since that connect, and otherwise connects; a
\* query is issued only after ensure_connection returned True; and when the
\* connect fails the operation returns (None, 'Failed to connect to
\* Salesforce') and leaves the service not connected
C30_AnyOperationReturnsNone ==
    [][(pc = "idle" /\ pc' = "returned") =>
          /\ SessionStep
          /\ ~result'.last.ensured =>
                 result'.last.returned = Returned("None", "Failed to connect to Salesforce")]_vars

\* C30, amended: as above, where test_connection reports the failed connect
\* as (False, 'Failed to establish connection') and the four data operations
\* as (None, 'Failed to connect to Salesforce')
C30_SessionReuseAndFailure ==
    [][(pc = "idle" /\ pc' = "returned") =>
          /\ SessionStep
          /\ ~result'.last.ensured =>
                 result'.last.returned =
                     IF result'.last.op = "test_connection"
                     THEN Returned("False", "Failed to establish connection")
                     ELSE Returned("None", "Failed to connect to Salesforce")]_vars

\* a session used again 1800 seconds after its connect has been dropped at
\* 3600 seconds, and the connect that followed has failed
C30_Witness ==
    /\ pc = "returned"
    /\ result.now >= 3600
    /\ result.self.sf # "None"
    /\ result.last.attempted
    /\ ~result.last.ensured
    /\ result.last.op \in DataOperations


-----------------------------------------------------------------------------
(* Batched assessments: get_ai_match_assessments_batch                      *)

\* an element of match_pairs: malformed when one of its three keys is
\* missing; llm is the completion its LLM call gets
PairData(malformed, llm) == [malformed |-> malformed, llm |-> llm]

process_single_assessment(pair_data) ==
    IF pair_data.malformed
    THEN Assessment(FALSE, NoConf, NoBullets, "Batch processing error: KeyError")
    ELSE get_ai_match_assessment(pair_data.llm)

total_batches_of(match_pairs, batch_size) ==
    (Len(match_pairs) + batch_size - 1) \div batch_size

start_idx_of(batch_num, batch_size) == batch_num * batch_size

end_idx_of(match_pairs, batch_num, batch_size) ==
    IF start_idx_of(batch_num, batch_size) + batch_size < Len(match_pairs)
    THEN start_idx_of(batch_num, batch_size) + batch_size
    ELSE Len(match_pairs)

\* match_pairs[start_idx:end_idx]
batch_pairs_of(match_pairs, batch_num, batch_size) ==
    SubSeq(match_pairs, start_idx_of(batch_num, batch_size) + 1,
           end_idx_of(match_pairs, batch_num, batch_size))

max_workers_of(batch_size, batch_pairs) ==
    IF batch_size < Len(batch_pairs) THEN batch_size ELSE Len(batch_pairs)

\* variant: the results as the futures complete
results_as_completed(futures, completed) ==
    [i \in DOMAIN futures |-> futures[completed[i]]]

\* list(executor.map(...)): the results of the futures in the order of
\* submission; completed is the order in which they finished
executor_map_results(futures, completed) == futures

\* variant: a delay after the last batch as well
delay_after_every_batch(batch_num, total_batches) == batch_num < total_batches

\* whether time.sleep(delay_between_calls * 2) follows batch batch_num
delay_after_batch(batch_num, total_batches) == batch_num < total_batches - 1

Pending == Assessment(FALSE, NoConf, NoBullets, "pending")

\* an LLM call starting or returning (index: the pair's place in
\* match_pairs, from 1) or the delay after a batch (index 0)
Event(e, batch, index) == [e |-> e, batch |-> batch, index |-> index]

-----------------------------------------------------------------------------
(* SpecBatchAi: the threads of one get_ai_match_assessments_batch call      *)

MaxPairs == 3

MaxBatchSize == 2

PairPool ==
    { PairData(TRUE, NoCompletion),
      PairData(FALSE, Completion(TRUE, NoContent)),
      PairData(FALSE, Completion(FALSE, Content("prose", JNull))),
      PairData(FALSE, Completion(FALSE,
                   Content("json", JObject(JNumber(85), JList(<<"same domain">>))))) }

\* tasks: the state of each pair of the current batch ("queued", "sleeping",
\* "calling", "done"); futures: their results; completed: the order they
\* finished in; log: the LLM calls and delays so far
InitBatchAi ==
    /\ pc = "loop"
    /\ \E match_pairs \in UNION {[1..n -> PairPool] : n \in 0..MaxPairs},
          batch_size \in 1..MaxBatchSize :
          result = [match_pairs |-> match_pairs, batch_size |-> batch_size,
                    batch_num |-> 0, tasks |-> <<>>, futures |-> <<>>,
                    completed |-> <<>>, all_results |-> <<>>, log |-> <<>>]
    /\ completion = NoCompletion
    /\ request = NoRequest
    /\ str1 = <<>>
    /\ str2 = <<>>
    /\ customer = NoCustomer
    /\ shell = NoShell
    /\ shell_accounts = <<>>

BatchPairs == batch_pairs_of(result.match_pairs, result.batch_num, result.batch_size)

TotalBatches == total_batches_of(result.match_pairs, result.batch_size)

\* the place in match_pairs of task i of the current batch
GlobalIndex(i) == start_idx_of(result.batch_num, result.batch_size) + i

Running == {i \in DOMAIN result.tasks : result.tasks[i] \in {"sleeping", "calling"}}

\* the loop enters a batch: executor.map submits every pair of it
SubmitBatch ==
    /\ pc = "loop"
    /\ result.batch_num < TotalBatches
    /\ result' = [result EXCEPT !.tasks = [i \in DOMAIN BatchPairs |-> "queued"],
                                !.futures = [i \in DOMAIN BatchPairs |-> Pending],
                                !.completed = <<>>]
    /\ pc' = "running"
    /\ UNCHANGED <<str1, str2, customer, shell, shell_accounts, completion, request>>

\* a free worker takes the oldest queued pair: a malformed pair fails at
\* once, any other starts its time.sleep(delay_between_calls)
WorkerTakes ==
    /\ pc = "running"
    /\ Cardinality(Running) < max_workers_of(result.batch_size, BatchPairs)
    /\ \E i \in DOMAIN result.tasks :
          /\ result.tasks[i] = "queued"
          /\ \A j \in 1..(i - 1) : result.tasks[j] # "queued"
          /\ result' = IF BatchPairs[i].malformed
                       THEN [result EXCEPT
                                !.tasks[i] = "done",
                                !.futures[i] = process_single_assessment(BatchPairs[i]),
                                !.completed = Append(@, i)]
                       ELSE [result EXCEPT !.tasks[i] = "sleeping"]
    /\ UNCHANGED <<pc, str1, str2, customer, shell, shell_accounts, completion, request>>

\* a worker wakes and sends its LLM call
CallStarts ==
    /\ pc = "running"
    /\ \E i \in DOMAIN result.tasks :
          /\ result.tasks[i] = "sleeping"
          /\ result' = [result EXCEPT
                           !.tasks[i] = "calling",
                           !.log = Append(@, Event("start", result.batch_num, GlobalIndex(i)))]
    /\ UNCHANGED <<pc, str1, str2, customer, shell, shell_accounts, completion, request>>

\* an LLM call returns and its future gets the assessment
CallReturns ==
    /\ pc = "running"
    /\ \E i \in DOMAIN result.tasks :
          /\ result.tasks[i] = "calling"
          /\ result' = [result EXCEPT
                           !.tasks[i] = "done",
                           !.futures[i] = process_single_assessment(BatchPairs[i]),
                           !.completed = Append(@, i),
                           !.log = Append(@, Event("return", result.batch_num, GlobalIndex(i)))]
    /\ UNCHANGED <<pc, str1, str2, customer, shell, shell_accounts, completion, request>>

\* every future is done: the with block ends and the results are appended
CollectBatch ==
    /\ pc = "running"
    /\ \A i \in DOMAIN result.tasks : result.tasks[i] = "done"
    /\ result' = [result EXCEPT
                     !.all_results = @ \o executor_map_results(result.futures, result.completed)]
    /\ pc' = IF delay_after_batch(result.batch_num, TotalBatches) THEN "delay" ELSE "next"
    /\ UNCHANGED <<str1, str2, customer, shell, shell_accounts, completion, request>>

\* time.sleep(delay_between_calls * 2)
InterBatchDelay ==
    /\ pc = "delay"
    /\ result' = [result EXCEPT !.log = Append(@, Event("delay", result.batch_num, 0))]
    /\ pc' = "next"
    /\ UNCHANGED <<str1, str2, customer, shell, shell_accounts, completion, request>>

NextBatchNum ==
    /\ pc = "next"
    /\ result' = [result EXCEPT !.batch_num = @ + 1, !.tasks = <<>>, !.futures = <<>>,
                                !.completed = <<>>]
    /\ pc' = "loop"
    /\ UNCHANGED <<str1, str2, customer, shell, shell_accounts, completion, request>>

ReturnAllResults ==
    /\ pc = "loop"
    /\ result.batch_num >= TotalBatches
    /\ pc' = "returned"
    /\ UNCHANGED <<str1, str2, customer, shell, shell_accounts, completion, request, result>>

NextBatchAi ==
    \/ SubmitBatch
    \/ WorkerTakes
    \/ CallStarts
    \/ CallReturns
    \/ CollectBatch
    \/ InterBatchDelay
    \/ NextBatchNum
    \/ ReturnAllResults

SpecBatchAi == InitBatchAi /\ [][NextBatchAi]_vars

\* processing the pair raises: a key is missing, or the LLM call raises
ProcessingRaises(pair_data) == pair_data.malformed \/ pair_data.llm.raises

\* C21: whatever the order in which the workers run and finish, the list
\* returned is as long as match_pairs and its entry i is the result of
\* match_pairs[i] alone; a pair whose processing raises has a failure entry
\* (success = False) at its own index
C21_ResultPerPairInOrder ==
    pc = "returned" =>
        /\ Len(result.all_results) = Len(result.match_pairs)
        /\ \A i \in DOMAIN result.match_pairs :
               /\ result.all_results[i] = process_single_assessment(result.match_pairs[i])
               /\ ProcessingRaises(result.match_pairs[i]) => ~result.all_results[i].success

\* two calls of one batch returned in the reverse of their order in
\* match_pairs, one pair was malformed and one assessment succeeded
C21_Witness ==
    /\ pc = "returned"
    /\ \E p, q \in DOMAIN result.log :
          /\ p < q
          /\ result.log[p].e = "return"
          /\ result.log[q].e = "return"
          /\ result.log[p].batch = result.log[q].batch
          /\ result.log[p].index > result.log[q].index
    /\ \E i \in DOMAIN result.match_pairs : result.match_pairs[i].malformed
    /\ \E i \in DOMAIN result.all_results : result.all_results[i].success

\* the batch of the pair at place i (from 1) of match_pairs
BatchOf(i) == (i - 1) \div result.batch_size

\* the places in the log of an event
Places(e, batch, index) ==
    {p \in DOMAIN result.log : result.log[p] = Event(e, batch, index)}

\* C22: at most batch_size LLM calls are in flight, a call of a later batch
\* starts only after every call of every earlier batch has returned, and a
\* delay follows every batch but the last, before the next batch's calls
C22_BoundedCallsOrderedBatches ==
    /\ Cardinality({i \in DOMAIN result.tasks : result.tasks[i] = "calling"})
           <= result.batch_size
    /\ \A q \in DOMAIN result.log :
           result.log[q].e = "start" =>
               \A i \in DOMAIN result.match_pairs :
                   (BatchOf(i) < result.log[q].batch /\ ~result.match_pairs[i].malformed) =>
                       \E p \in 1..(q - 1) : result.log[p] = Event("return", BatchOf(i), i)
    /\ \A q \in DOMAIN result.log :
           result.log[q].e = "start" =>
               \A k \in 0..(result.log[q].batch - 1) :
                   \E p \in 1..(q - 1) : result.log[p] = Event("delay", k, 0)
    /\ \A q \in DOMAIN result.log :
           result.log[q].e = "delay" =>
               /\ result.log[q].batch < TotalBatches - 1
               /\ \A p \in (q + 1)..Len(result.log) : result.log[p].batch > result.log[q].batch
    /\ pc = "returned" =>
           \A k \in 0..(TotalBatches - 1) :
               Cardinality(Places("delay", k, 0)) = IF k < TotalBatches - 1 THEN 1 ELSE 0

\* two batches were processed, two calls of the first were in flight together
C22_Witness ==
    /\ pc = "returned"
    /\ TotalBatches = 2
    /\ \E p \in DOMAIN result.log :
          /\ p < Len(result.log)
          /\ result.log[p].e = "start"
          /\ result.log[p + 1].e = "start"
    /\ \E p \in DOMAIN result.log : result.log[p].e = "start" /\ result.log[p].batch = 1

=============================================================================
